---- MODULE Spec2Model ----
(***************************************************************************)
(* A2UI agent server: the page-view session (stream_ui, event_generator,   *)
(* generate_page_messages), the action endpoint (handle_action,            *)
(* process_action), the message builder and the page assemblers.           *)
(*                                                                         *)
(* Conventions.  Python strings are TLA+ strings (Len, SubSeq and \o act   *)
(* on their characters).  Non-ASCII text is written as json.dumps writes   *)
(* it on the wire, \uXXXX.  A Python dict whose key order matters is a     *)
(* sequence of <<key, value>> pairs; a dict that becomes a JSON object is  *)
(* a record.  An Optional[str] that the code only tests for truthiness is  *)
(* "" when absent; an Optional list or dict likewise is <<>>.  A value     *)
(* whose Python type the code inspects carries its type as a tag (PyStr,   *)
(* PyDict, ...).  json.dumps of a message is the message's structure.      *)
(***************************************************************************)
EXTENDS Integers, Sequences, FiniteSets, TLC

\* ------------------------------------------------------------------------
\* Python values
\* ------------------------------------------------------------------------
PyNone == [t |-> "none"]

PyStr(s) == [t |-> "str", v |-> s]

PyBool(b) == [t |-> "bool", v |-> b]

PyInt(n) == [t |-> "int", v |-> n]

\* a float that is no number: x is "inf" or "nan"
PyFloat(x) == [t |-> "float", v |-> x]

PyDict(d) == [t |-> "dict", v |-> d]

PyList(l) == [t |-> "list", v |-> l]

\* bool(value) of a tagged value
Truthy(x) ==
  CASE x.t = "none" -> FALSE
    [] x.t = "str" -> x.v # ""
    [] x.t = "bool" -> x.v
    [] x.t = "int" -> x.v # 0
    [] x.t = "float" -> TRUE
    [] OTHER -> x.v # <<>>

\* isinstance(value, int): bool is a subclass of int
IsInstanceInt(x) == x.t \in {"int", "bool"}

Min(a, b) == IF a < b THEN a ELSE b

\* a maximum that does not clamp: its second argument
MaxOfSecond(a, b) == b

Max(a, b) == IF a > b THEN a ELSE b

\* ------------------------------------------------------------------------
\* str methods
\* ------------------------------------------------------------------------
\* s[:n]
Prefix(s, n) == SubSeq(s, 1, Min(n, Len(s)))

\* s[n:] (0-based n)
Suffix(s, n) == SubSeq(s, n + 1, Len(s))

StartsWith(s, p) == Len(s) >= Len(p) /\ SubSeq(s, 1, Len(p)) = p

EndsWith(s, p) == Len(s) >= Len(p) /\ SubSeq(s, Len(s) - Len(p) + 1, Len(s)) = p

\* s.find(c) for a one-character c, 1-based, 0 when absent
RECURSIVE FindFrom(_, _, _)
FindFrom(s, c, i) ==
  IF i > Len(s) THEN 0
  ELSE IF SubSeq(s, i, i) = c THEN i
  ELSE FindFrom(s, c, i + 1)

Find(s, c) == FindFrom(s, c, 1)

Contains(s, sub) == \E i \in 1..(Len(s) - Len(sub) + 1) : SubSeq(s, i, i + Len(sub) - 1) = sub

\* s.split(c) for a one-character c
RECURSIVE Split(_, _)
Split(s, c) ==
  LET i == Find(s, c) IN
  IF i = 0 THEN <<s>>
  ELSE <<SubSeq(s, 1, i - 1)>> \o Split(Suffix(s, i), c)

\* s.split(c, 1)
Split1(s, c) ==
  LET i == Find(s, c) IN
  IF i = 0 THEN <<s>> ELSE <<SubSeq(s, 1, i - 1), Suffix(s, i)>>

\* s.replace(a, b) for one-character a
RECURSIVE Replace(_, _, _)
Replace(s, a, b) ==
  IF s = "" THEN ""
  ELSE (IF Head(s) = a THEN b ELSE Head(s)) \o Replace(Tail(s), a, b)

\* s.strip() of spaces
RECURSIVE LStrip(_)
LStrip(s) == IF s # "" /\ Head(s) = " " THEN LStrip(Tail(s)) ELSE s

RECURSIVE RStrip(_)
RStrip(s) ==
  IF s # "" /\ SubSeq(s, Len(s), Len(s)) = " " THEN RStrip(SubSeq(s, 1, Len(s) - 1)) ELSE s

Strip(s) == RStrip(LStrip(s))

\* sep.join(parts)
RECURSIVE Join(_, _)
Join(sep, parts) ==
  IF parts = <<>> THEN ""
  ELSE IF Len(parts) = 1 THEN parts[1]
  ELSE parts[1] \o sep \o Join(sep, Tail(parts))

VARIABLES
  epc,           \* event_generator of the SSE session: idle, pull, check, done, closed
  gen,           \* the frame of generate_page_messages
  yielded,       \* the messages the generator has yielded in this session
  events,        \* the SSE events event_generator has emitted in this session
  checks,        \* the results of request.is_disconnected() in this session
  calls,         \* the backend requests of this session, with their outcome
  disconnected,  \* whether the client of this session has gone
  http_request,  \* request.query_params of this session
  apc,           \* handle_action: idle, await, responded
  act,           \* the frame of process_action
  acalls,        \* the backend requests of this action request, with their outcome
  warnings,      \* logger.warning calls of this action request
  response,      \* what handle_action returned, <<>> before it returns
  sessions,      \* the page-view sessions that run interleaved, by session
  requests,      \* the action requests that run interleaved with them, by request
  probe          \* the object and the calls made on it, when functions run alone

vars == <<epc, gen, yielded, events, checks, calls, disconnected, http_request,
          apc, act, acalls, warnings, response, sessions, requests, probe>>

sessionVars == <<epc, gen, yielded, events, checks, calls, disconnected, http_request>>

actionVars == <<apc, act, acalls, warnings, response>>

sideVars == <<sessions, requests, probe>>
\* ------------------------------------------------------------------------
\* a2ui_builder.py: A2UIBuilder.  A factory method appends one component to
\* self._components; here a factory is the component it appends and a page
\* assembler appends the sequence of its factory calls (Add).
\* ------------------------------------------------------------------------
A2UIBuilder(surface_id) ==
  [surface_id |-> surface_id, _components |-> <<>>, _data_updates |-> <<>>]

reset(builder) == [builder EXCEPT !._components = <<>>, !._data_updates = <<>>]

literal_string(value) == [literalString |-> value]

literal_number(value) == [literalNumber |-> value]

literal_bool(value) == [literalBoolean |-> value]

path(value) == [path |-> value]

\* `x if isinstance(x, dict) else self.literal_string(x)`
StrOrDict(x) == IF x.t = "dict" THEN x.v ELSE literal_string(x.v)

\* a props entry that is only set when its value is truthy
OptProp(key, value) == IF value # "" THEN (key :> value) ELSE <<>>

text(component_id, txt, usage_hint) ==
  [id |-> component_id,
   kind |-> "Text",
   props |-> [text |-> StrOrDict(txt)] @@ OptProp("usageHint", usage_hint)]

button(component_id, child_id, action_name, context) ==
  [id |-> component_id,
   kind |-> "Button",
   props |-> [child |-> child_id,
              action |-> [name |-> action_name]
                         @@ (IF context # <<>> THEN [context |-> context] ELSE <<>>)]]

text_field(component_id, label, txt, text_field_type) ==
  [id |-> component_id,
   kind |-> "TextField",
   props |-> [label |-> StrOrDict(label)]
             @@ (IF Truthy(txt) THEN [text |-> StrOrDict(txt)] ELSE <<>>)
             @@ OptProp("textFieldType", text_field_type)]

column(component_id, children, alignment, distribution) ==
  [id |-> component_id,
   kind |-> "Column",
   props |-> [children |-> [explicitList |-> children]]
             @@ OptProp("alignment", alignment)
             @@ OptProp("distribution", distribution)]

row(component_id, children, alignment, distribution) ==
  [id |-> component_id,
   kind |-> "Row",
   props |-> [children |-> [explicitList |-> children]]
             @@ OptProp("alignment", alignment)
             @@ OptProp("distribution", distribution)]

card(component_id, child) ==
  [id |-> component_id, kind |-> "Card", props |-> [child |-> child]]

list_component(component_id, children, template, direction, alignment) ==
  [id |-> component_id,
   kind |-> "List",
   props |-> [direction |-> direction]
             @@ (IF children # <<>> THEN [children |-> [explicitList |-> children]]
                 ELSE IF template # <<>> THEN [children |-> [template |-> template]]
                 ELSE <<>>)
             @@ OptProp("alignment", alignment)]

icon(component_id, name) ==
  [id |-> component_id, kind |-> "Icon", props |-> [name |-> StrOrDict(name)]]

divider(component_id) ==
  [id |-> component_id, kind |-> "Divider", props |-> <<>>]

\* the appends of a run of factory calls, in call order
Add(builder, components) == [builder EXCEPT !._components = @ \o components]

build_surface_update(builder) ==
  [surfaceUpdate |-> [surfaceId |-> builder.surface_id,
                      components |-> builder._components]]

build_data_model_update(builder, data_path, contents) ==
  [dataModelUpdate |-> [surfaceId |-> builder.surface_id,
                        path |-> data_path,
                        contents |-> contents]]

build_begin_rendering(builder, root) ==
  [beginRendering |-> [surfaceId |-> builder.surface_id, root |-> root]]

build_delete_surface(builder) ==
  [deleteSurface |-> [surfaceId |-> builder.surface_id]]

\* Data model helpers
value_string(key, value) == [key |-> key, valueString |-> value]

value_number(key, value) == [key |-> key, valueNumber |-> value]

value_bool(key, value) == [key |-> key, valueBoolean |-> value]

value_map(key, items) == [key |-> key, valueMap |-> items]

\* str(item) of a list element that is not a dict
PyToStr(x) ==
  CASE x.t = "str" -> x.v
    [] x.t = "none" -> "None"
    [] x.t = "bool" -> (IF x.v THEN "True" ELSE "False")
    [] x.t = "int" -> ToString(x.v)
    [] x.t = "float" -> x.v
    [] OTHER -> "[...]"

\* a conversion that tests for a number before it tests for a boolean
RECURSIVE build_value_map_number_first(_)
build_value_map_number_first(data) ==
  IF data = <<>> THEN <<>>
  ELSE
    LET key == data[1][1]
        value == data[1][2]
        entry ==
          IF value.t = "str" THEN <<value_string(key, value.v)>>
          ELSE IF IsInstanceInt(value) \/ value.t = "float" THEN <<value_number(key, value.v)>>
          ELSE IF value.t = "bool" THEN <<value_bool(key, value.v)>>
          ELSE IF value.t = "none" THEN <<value_string(key, "")>>
          ELSE <<>>
    IN entry \o build_value_map_number_first(Tail(data))

\* a conversion that numbers the elements of a list from 1
RECURSIVE build_value_map_items_from_one(_)
build_value_map_items_from_one(data) ==
  IF data = <<>> THEN <<>>
  ELSE
    LET key == data[1][1]
        value == data[1][2]
        list_map(l) ==
          [i \in 1..Len(l) |->
             IF l[i].t = "dict"
             THEN value_map("item" \o ToString(i), build_value_map_items_from_one(l[i].v))
             ELSE value_string("item" \o ToString(i), PyToStr(l[i]))]
        entry ==
          IF value.t = "str" THEN <<value_string(key, value.v)>>
          ELSE IF value.t = "bool" THEN <<value_bool(key, value.v)>>
          ELSE IF IsInstanceInt(value) \/ value.t = "float" THEN <<value_number(key, value.v)>>
          ELSE IF value.t = "dict" THEN <<value_map(key, build_value_map_items_from_one(value.v))>>
          ELSE IF value.t = "list" THEN <<value_map(key, list_map(value.v))>>
          ELSE IF value.t = "none" THEN <<value_string(key, "")>>
          ELSE <<>>
    IN entry \o build_value_map_items_from_one(Tail(data))

\* data is a dict in insertion order: a sequence of <<key, value>> pairs
RECURSIVE build_value_map_from_dict(_)
build_value_map_from_dict(data) ==
  IF data = <<>> THEN <<>>
  ELSE
    LET key == data[1][1]
        value == data[1][2]
        list_map(l) ==
          [i \in 1..Len(l) |->
             IF l[i].t = "dict"
             THEN value_map("item" \o ToString(i - 1), build_value_map_from_dict(l[i].v))
             ELSE value_string("item" \o ToString(i - 1), PyToStr(l[i]))]
        entry ==
          IF value.t = "str" THEN <<value_string(key, value.v)>>
          ELSE IF value.t = "bool" THEN <<value_bool(key, value.v)>>
          ELSE IF IsInstanceInt(value) \/ value.t = "float" THEN <<value_number(key, value.v)>>
          ELSE IF value.t = "dict" THEN <<value_map(key, build_value_map_from_dict(value.v))>>
          ELSE IF value.t = "list" THEN <<value_map(key, list_map(value.v))>>
          ELSE IF value.t = "none" THEN <<value_string(key, "")>>
          ELSE <<>>
    IN entry \o build_value_map_from_dict(Tail(data))

\* ------------------------------------------------------------------------
\* models.py
\* ------------------------------------------------------------------------
TicketStatusValues == {"open", "in_progress", "completed", "cancelled"}

PriorityValues == {"low", "medium", "high", "urgent"}

\* TicketStatus(value): the member whose value it is (a str); ValueError otherwise
TicketStatus(value) == value

TicketStatusRaises(value) == value \notin TicketStatusValues

Priority(value) == value

PriorityRaises(value) == value \notin PriorityValues

\* str(ValueError) of a failed enum lookup
EnumErrorMessage(value, enum_name) == "'" \o value \o "' is not a valid " \o enum_name

STATUS_LABELS(status) ==
  CASE status = "open" -> "\\u5f85\\u5904\\u7406"
    [] status = "in_progress" -> "\\u5904\\u7406\\u4e2d"
    [] status = "completed" -> "\\u5df2\\u5b8c\\u6210"
    [] status = "cancelled" -> "\\u5df2\\u53d6\\u6d88"

PRIORITY_LABELS(priority) ==
  CASE priority = "low" -> "\\u4f4e"
    [] priority = "medium" -> "\\u4e2d"
    [] priority = "high" -> "\\u9ad8"
    [] priority = "urgent" -> "\\u7d27\\u6025"

STATUS_TRANSITIONS(status) ==
  CASE status = "open" -> <<"in_progress", "cancelled">>
    [] status = "in_progress" -> <<"open", "completed", "cancelled">>
    [] status = "completed" -> <<"open">>
    [] status = "cancelled" -> <<"open">>

\* concatenation of a sequence of sequences
RECURSIVE Flatten(_)
Flatten(seqs) == IF seqs = <<>> THEN <<>> ELSE Head(seqs) \o Flatten(Tail(seqs))

\* the outcome of a call that can raise: exc is str(exception)
Raise(message) == [raised |-> TRUE, exc |-> message]

Return(messages) == [raised |-> FALSE, messages |-> messages]

\* ------------------------------------------------------------------------
\* pages/layout.py, pages/error.py
\* ------------------------------------------------------------------------

\* a layout whose top-level column is not named app-layout
build_app_layout_renamed(builder, content_id, active_nav) ==
  Add(builder, <<
    divider("divider-nav"),
    column("layout", <<"divider-nav", content_id>>, "", "")
  >>)

build_app_layout(builder, content_id, active_nav) ==
  Add(builder, <<
    text("nav-logo-text", PyStr("Ticket System"), "h2"),
    text("nav-tickets-text", PyStr("\\u7968\\u636e\\u7ba1\\u7406"), ""),
    button("nav-tickets", "nav-tickets-text", "navigate", <<[key |-> "to",
        value |-> [literalString |-> "/tickets"]]>>),
    text("nav-tags-text", PyStr("\\u6807\\u7b7e\\u7ba1\\u7406"), ""),
    button("nav-tags", "nav-tags-text", "navigate", <<[key |-> "to",
        value |-> [literalString |-> "/tags"]]>>),
    row("nav-items", <<"nav-tickets", "nav-tags">>, "center", ""),
    row("nav-header", <<"nav-logo-text", "nav-items">>, "center", "spaceBetween"),
    divider("divider-nav"),
    column("app-layout", <<"nav-header", "divider-nav", content_id>>, "", "")
  >>)

build_not_found_page(builder) ==
  [raised |-> FALSE,
   builder |-> Add(builder, <<
      icon("notfound-icon", PyStr("error_outline")),
      text("notfound-title", PyStr("404"), "h1"),
      text("notfound-subtitle", PyStr("\\u9875\\u9762\\u672a\\u627e\\u5230"), "h2"),
      text("notfound-desc",
          PyStr("\\u60a8\\u8bbf\\u95ee\\u7684\\u9875\\u9762\\u4e0d\\u5b58\\u5728\\uff0c\\u8bf7\\u68c0\\u67e5URL\\u662f\\u5426\\u6b63\\u786e"), ""),
      icon("notfound-home-icon", PyStr("home")),
      text("notfound-home-text", PyStr("\\u8fd4\\u56de\\u9996\\u9875"), ""),
      row("notfound-home-content", <<"notfound-home-icon", "notfound-home-text">>, "center", ""),
      button("notfound-home-btn", "notfound-home-content", "navigate", <<[key |-> "to",
          value |-> [literalString |-> "/tickets"]]>>),
      column("notfound-page", <<"notfound-icon", "notfound-title", "notfound-subtitle",
          "notfound-desc", "notfound-home-btn">>, "center", "")
    >>),
   page_id |-> "notfound-page"]

build_error_page(builder, error_message) ==
  [raised |-> FALSE,
   builder |-> Add(builder, <<
      icon("error-icon", PyStr("error")),
      text("error-title", PyStr("\\u51fa\\u9519\\u4e86"), "h1"),
      text("error-message", PyStr(error_message), ""),
      icon("error-retry-icon", PyStr("refresh")),
      text("error-retry-text", PyStr("\\u91cd\\u8bd5"), ""),
      row("error-retry-content", <<"error-retry-icon", "error-retry-text">>, "center", ""),
      button("error-retry-btn", "error-retry-content", "retry", <<>>),
      icon("error-home-icon", PyStr("home")),
      text("error-home-text", PyStr("\\u8fd4\\u56de\\u9996\\u9875"), ""),
      row("error-home-content", <<"error-home-icon", "error-home-text">>, "center", ""),
      button("error-home-btn", "error-home-content", "navigate", <<[key |-> "to",
          value |-> [literalString |-> "/tickets"]]>>),
      row("error-actions", <<"error-retry-btn", "error-home-btn">>, "center", ""),
      column("error-page", <<"error-icon", "error-title", "error-message", "error-actions">>,
          "center", "")
    >>),
   page_id |-> "error-page"]

build_loading_state(builder) ==
  [raised |-> FALSE,
   builder |-> Add(builder, <<
      icon("loading-icon", PyStr("hourglass_empty")),
      text("loading-text", PyStr("\\u52a0\\u8f7d\\u4e2d..."), ""),
      column("loading-state", <<"loading-icon", "loading-text">>, "center", "")
    >>),
   page_id |-> "loading-state"]

\* ------------------------------------------------------------------------
\* pages/tickets.py, pages/tags.py: page assemblers
\* ------------------------------------------------------------------------

build_tickets_page(builder) ==
  [raised |-> FALSE,
   builder |-> Add(builder, <<
      text("tickets-title", PyStr("\\u7968\\u636e\\u5217\\u8868"), "h1"),
      text("tickets-add-text", PyStr("+ \\u65b0\\u5efa\\u7968\\u636e"), ""),
      button("tickets-add-btn", "tickets-add-text", "navigate", <<[key |-> "to",
          value |-> [literalString |-> "/tickets/new"]]>>),
      row("tickets-header", <<"tickets-title", "tickets-add-btn">>, "center", "spaceBetween"),
      text_field("tickets-search", PyStr("\\u641c\\u7d22\\u7968\\u636e..."),
          PyDict(path("/app/tickets/query/search")), ""),
      text("tickets-search-btn-text", PyStr("\\u641c\\u7d22"), ""),
      button("tickets-search-btn", "tickets-search-btn-text", "search_tickets",
          <<[key |-> "search", value |-> [path |-> "/app/tickets/query/search"]]>>),
      row("tickets-search-row", <<"tickets-search", "tickets-search-btn">>, "center", ""),
      text("filter-all-text", PyStr("\\u5168\\u90e8"), ""),
      button("filter-all", "filter-all-text", "filter_status", <<[key |-> "status",
          value |-> [literalString |-> ""]]>>),
      text("filter-open-text", PyStr("\\u5f85\\u5904\\u7406"), ""),
      button("filter-open", "filter-open-text", "filter_status", <<[key |-> "status",
          value |-> [literalString |-> "open"]]>>),
      text("filter-progress-text", PyStr("\\u5904\\u7406\\u4e2d"), ""),
      button("filter-progress", "filter-progress-text", "filter_status", <<[key |-> "status",
          value |-> [literalString |-> "in_progress"]]>>),
      text("filter-completed-text", PyStr("\\u5df2\\u5b8c\\u6210"), ""),
      button("filter-completed", "filter-completed-text", "filter_status", <<[key |-> "status",
          value |-> [literalString |-> "completed"]]>>),
      text("filter-cancelled-text", PyStr("\\u5df2\\u53d6\\u6d88"), ""),
      button("filter-cancelled", "filter-cancelled-text", "filter_status", <<[key |-> "status",
          value |-> [literalString |-> "cancelled"]]>>),
      row("tickets-status-filters", <<"filter-all", "filter-open", "filter-progress",
          "filter-completed", "filter-cancelled">>, "center", ""),
      text("priority-all-text", PyStr("\\u5168\\u90e8\\u4f18\\u5148\\u7ea7"), ""),
      button("priority-all", "priority-all-text", "filter_priority", <<[key |-> "priority",
          value |-> [literalString |-> ""]]>>),
      text("priority-low-text", PyStr("\\u4f4e"), ""),
      button("priority-low", "priority-low-text", "filter_priority", <<[key |-> "priority",
          value |-> [literalString |-> "low"]]>>),
      text("priority-medium-text", PyStr("\\u4e2d"), ""),
      button("priority-medium", "priority-medium-text", "filter_priority", <<[key |-> "priority",
          value |-> [literalString |-> "medium"]]>>),
      text("priority-high-text", PyStr("\\u9ad8"), ""),
      button("priority-high", "priority-high-text", "filter_priority", <<[key |-> "priority",
          value |-> [literalString |-> "high"]]>>),
      text("priority-urgent-text", PyStr("\\u7d27\\u6025"), ""),
      button("priority-urgent", "priority-urgent-text", "filter_priority", <<[key |-> "priority",
          value |-> [literalString |-> "urgent"]]>>),
      row("tickets-priority-filters", <<"priority-all", "priority-low", "priority-medium",
          "priority-high", "priority-urgent">>, "center", ""),
      column("tickets-filters", <<"tickets-search-row", "tickets-status-filters",
          "tickets-priority-filters">>, "", ""),
      card("tickets-filters-card", "tickets-filters"),
      text("ticket-item-title", PyDict(path("title")), "h3"),
      text("ticket-item-status", PyDict(path("statusLabel")), ""),
      text("ticket-item-priority", PyDict(path("priorityLabel")), ""),
      text("ticket-item-date", PyDict(path("created_at")), ""),
      row("ticket-item-meta", <<"ticket-item-status", "ticket-item-priority", "ticket-item-date">>,
          "center", ""),
      column("ticket-item-content", <<"ticket-item-title", "ticket-item-meta">>, "", ""),
      text("ticket-item-arrow", PyStr("\\u2192"), ""),
      row("ticket-item-row", <<"ticket-item-content", "ticket-item-arrow">>, "center",
          "spaceBetween"),
      button("ticket-item-btn", "ticket-item-row", "view_ticket", <<[key |-> "id",
          value |-> [path |-> "id"]]>>),
      card("ticket-item-card", "ticket-item-btn"),
      list_component("tickets-list", <<>>, [componentId |-> "ticket-item-card",
          dataBinding |-> "/app/tickets/list"], "vertical", ""),
      text("tickets-empty-title", PyStr("\\u6682\\u65e0\\u7968\\u636e"), "h3"),
      text("tickets-empty-desc",
          PyStr("\\u70b9\\u51fb\\u4e0a\\u65b9\\u6309\\u94ae\\u521b\\u5efa\\u7b2c\\u4e00\\u4e2a\\u7968\\u636e"), ""),
      column("tickets-empty", <<"tickets-empty-title", "tickets-empty-desc">>, "center", ""),
      text("pagination-prev-text", PyStr("\\u2190 \\u4e0a\\u4e00\\u9875"), ""),
      button("pagination-prev", "pagination-prev-text", "paginate", <<[key |-> "page",
          value |-> [path |-> "/app/tickets/pagination/prevPage"]]>>),
      text("pagination-info", PyDict(path("/app/tickets/pagination/info")), ""),
      text("pagination-next-text", PyStr("\\u4e0b\\u4e00\\u9875 \\u2192"), ""),
      button("pagination-next", "pagination-next-text", "paginate", <<[key |-> "page",
          value |-> [path |-> "/app/tickets/pagination/nextPage"]]>>),
      row("tickets-pagination", <<"pagination-prev", "pagination-info", "pagination-next">>,
          "center", "center"),
      column("tickets-content", <<"tickets-list", "tickets-pagination">>, "", ""),
      column("tickets-page", <<"tickets-header", "tickets-filters-card", "tickets-content">>, "",
          "")
    >>),
   page_id |-> "tickets-page"]

build_ticket_create_page(builder) ==
  [raised |-> FALSE,
   builder |-> Add(builder, <<
      text("create-back-text", PyStr("\\u2190 \\u8fd4\\u56de\\u5217\\u8868"), ""),
      button("create-back-btn", "create-back-text", "navigate", <<[key |-> "to",
          value |-> [literalString |-> "/tickets"]]>>),
      text("create-title", PyStr("\\u65b0\\u5efa\\u7968\\u636e"), "h1"),
      row("create-header", <<"create-back-btn", "create-title">>, "center", ""),
      text("create-title-label", PyStr("\\u6807\\u9898 *"), "h4"),
      text_field("create-title-input", PyStr("\\u8bf7\\u8f93\\u5165\\u7968\\u636e\\u6807\\u9898"),
          PyDict(path("/app/form/create/title")), ""),
      text("create-desc-label", PyStr("\\u63cf\\u8ff0"), "h4"),
      text_field("create-desc-input",
          PyStr("\\u8bf7\\u8f93\\u5165\\u8be6\\u7ec6\\u63cf\\u8ff0..."),
          PyDict(path("/app/form/create/description")), "multiline"),
      text("create-priority-label", PyStr("\\u4f18\\u5148\\u7ea7"), "h4"),
      text("create-priority-low-text", PyStr("\\u4f4e"), ""),
      button("create-priority-low", "create-priority-low-text", "set_form_priority",
          <<[key |-> "priority", value |-> [literalString |-> "low"]]>>),
      text("create-priority-medium-text", PyStr("\\u4e2d"), ""),
      button("create-priority-medium", "create-priority-medium-text", "set_form_priority",
          <<[key |-> "priority", value |-> [literalString |-> "medium"]]>>),
      text("create-priority-high-text", PyStr("\\u9ad8"), ""),
      button("create-priority-high", "create-priority-high-text", "set_form_priority",
          <<[key |-> "priority", value |-> [literalString |-> "high"]]>>),
      text("create-priority-urgent-text", PyStr("\\u7d27\\u6025"), ""),
      button("create-priority-urgent", "create-priority-urgent-text", "set_form_priority",
          <<[key |-> "priority", value |-> [literalString |-> "urgent"]]>>),
      row("create-priority-btns", <<"create-priority-low", "create-priority-medium",
          "create-priority-high", "create-priority-urgent">>, "center", ""),
      column("create-form-fields", <<"create-title-label", "create-title-input",
          "create-desc-label", "create-desc-input", "create-priority-label",
          "create-priority-btns">>, "", ""),
      divider("create-divider"),
      text("create-cancel-text", PyStr("\\u53d6\\u6d88"), ""),
      button("create-cancel-btn", "create-cancel-text", "navigate", <<[key |-> "to",
          value |-> [literalString |-> "/tickets"]]>>),
      text("create-submit-text", PyStr("\\u521b\\u5efa\\u7968\\u636e"), ""),
      button("create-submit-btn", "create-submit-text", "create_ticket", <<[key |-> "form",
          value |-> [path |-> "/app/form/create"]]>>),
      row("create-actions", <<"create-cancel-btn", "create-submit-btn">>, "center", "end"),
      column("create-form", <<"create-form-fields", "create-divider", "create-actions">>, "", ""),
      card("create-form-card", "create-form"),
      column("create-page", <<"create-header", "create-form-card">>, "", "")
    >>),
   page_id |-> "create-page"]

build_ticket_edit_page(builder, ticket) ==
  LET ticket_id == ticket.id IN
  [raised |-> FALSE,
   builder |-> Add(builder, <<
      text("edit-back-text", PyStr("\\u2190 \\u8fd4\\u56de\\u8be6\\u60c5"), ""),
      button("edit-back-btn", "edit-back-text", "navigate", <<[key |-> "to",
          value |-> [literalString |-> "/tickets/" \o ticket_id]]>>),
      text("edit-title", PyStr("\\u7f16\\u8f91\\u7968\\u636e"), "h1"),
      row("edit-header", <<"edit-back-btn", "edit-title">>, "center", ""),
      text("edit-title-label", PyStr("\\u6807\\u9898 *"), "h4"),
      text_field("edit-title-input", PyStr("\\u8bf7\\u8f93\\u5165\\u7968\\u636e\\u6807\\u9898"),
          PyDict(path("/app/form/edit/title")), ""),
      text("edit-desc-label", PyStr("\\u63cf\\u8ff0"), "h4"),
      text_field("edit-desc-input", PyStr("\\u8bf7\\u8f93\\u5165\\u8be6\\u7ec6\\u63cf\\u8ff0..."),
          PyDict(path("/app/form/edit/description")), "multiline"),
      text("edit-priority-label", PyStr("\\u4f18\\u5148\\u7ea7"), "h4"),
      text("edit-priority-low-text", PyStr("\\u4f4e"), ""),
      button("edit-priority-low", "edit-priority-low-text", "set_form_priority",
          <<[key |-> "priority", value |-> [literalString |-> "low"]]>>),
      text("edit-priority-medium-text", PyStr("\\u4e2d"), ""),
      button("edit-priority-medium", "edit-priority-medium-text", "set_form_priority",
          <<[key |-> "priority", value |-> [literalString |-> "medium"]]>>),
      text("edit-priority-high-text", PyStr("\\u9ad8"), ""),
      button("edit-priority-high", "edit-priority-high-text", "set_form_priority",
          <<[key |-> "priority", value |-> [literalString |-> "high"]]>>),
      text("edit-priority-urgent-text", PyStr("\\u7d27\\u6025"), ""),
      button("edit-priority-urgent", "edit-priority-urgent-text", "set_form_priority",
          <<[key |-> "priority", value |-> [literalString |-> "urgent"]]>>),
      row("edit-priority-btns", <<"edit-priority-low", "edit-priority-medium",
          "edit-priority-high", "edit-priority-urgent">>, "center", ""),
      column("edit-form-fields", <<"edit-title-label", "edit-title-input", "edit-desc-label",
          "edit-desc-input", "edit-priority-label", "edit-priority-btns">>, "", ""),
      divider("edit-divider"),
      text("edit-cancel-text", PyStr("\\u53d6\\u6d88"), ""),
      button("edit-cancel-btn", "edit-cancel-text", "navigate", <<[key |-> "to",
          value |-> [literalString |-> "/tickets/" \o ticket_id]]>>),
      text("edit-submit-text", PyStr("\\u4fdd\\u5b58\\u66f4\\u6539"), ""),
      button("edit-submit-btn", "edit-submit-text", "update_ticket", <<[key |-> "id",
          value |-> [literalString |-> ticket_id]], [key |-> "form",
          value |-> [path |-> "/app/form/edit"]]>>),
      row("edit-actions", <<"edit-cancel-btn", "edit-submit-btn">>, "center", "end"),
      column("edit-form", <<"edit-form-fields", "edit-divider", "edit-actions">>, "", ""),
      card("edit-form-card", "edit-form"),
      column("edit-page", <<"edit-header", "edit-form-card">>, "", "")
    >>),
   page_id |-> "edit-page"]

build_tags_page(builder) ==
  [raised |-> FALSE,
   builder |-> Add(builder, <<
      text("tags-title", PyStr("\\u6807\\u7b7e\\u7ba1\\u7406"), "h1"),
      text("tags-add-text", PyStr("+ \\u65b0\\u5efa\\u6807\\u7b7e"), ""),
      button("tags-add-btn", "tags-add-text", "show_create_tag_form", <<>>),
      row("tags-header", <<"tags-title", "tags-add-btn">>, "center", "spaceBetween"),
      text("tag-form-title", PyStr("\\u65b0\\u5efa\\u6807\\u7b7e"), "h3"),
      text("tag-form-name-label", PyStr("\\u6807\\u7b7e\\u540d\\u79f0"), "h4"),
      text_field("tag-form-name-input", PyStr("\\u8bf7\\u8f93\\u5165\\u6807\\u7b7e\\u540d\\u79f0"),
          PyDict(path("/app/tags/form/name")), ""),
      text("tag-form-color-label", PyStr("\\u989c\\u8272"), "h4"),
      text("tag-color-blue-text", PyStr("\\u25cf \\u84dd\\u8272"), ""),
      button("tag-color-blue", "tag-color-blue-text", "set_tag_color", <<[key |-> "color",
          value |-> [literalString |-> "#3B82F6"]]>>),
      text("tag-color-green-text", PyStr("\\u25cf \\u7eff\\u8272"), ""),
      button("tag-color-green", "tag-color-green-text", "set_tag_color", <<[key |-> "color",
          value |-> [literalString |-> "#10B981"]]>>),
      text("tag-color-yellow-text", PyStr("\\u25cf \\u9ec4\\u8272"), ""),
      button("tag-color-yellow", "tag-color-yellow-text", "set_tag_color", <<[key |-> "color",
          value |-> [literalString |-> "#F59E0B"]]>>),
      text("tag-color-red-text", PyStr("\\u25cf \\u7ea2\\u8272"), ""),
      button("tag-color-red", "tag-color-red-text", "set_tag_color", <<[key |-> "color",
          value |-> [literalString |-> "#EF4444"]]>>),
      text("tag-color-purple-text", PyStr("\\u25cf \\u7d2b\\u8272"), ""),
      button("tag-color-purple", "tag-color-purple-text", "set_tag_color", <<[key |-> "color",
          value |-> [literalString |-> "#8B5CF6"]]>>),
      row("tag-color-btns", <<"tag-color-blue", "tag-color-green", "tag-color-yellow",
          "tag-color-red", "tag-color-purple">>, "center", ""),
      column("tag-form-fields", <<"tag-form-name-label", "tag-form-name-input",
          "tag-form-color-label", "tag-color-btns">>, "", ""),
      text("tag-form-cancel-text", PyStr("\\u53d6\\u6d88"), ""),
      button("tag-form-cancel", "tag-form-cancel-text", "hide_create_tag_form", <<>>),
      text("tag-form-submit-text", PyStr("\\u521b\\u5efa\\u6807\\u7b7e"), ""),
      button("tag-form-submit", "tag-form-submit-text", "create_tag", <<[key |-> "form",
          value |-> [path |-> "/app/tags/form"]]>>),
      row("tag-form-actions", <<"tag-form-cancel", "tag-form-submit">>, "", "end"),
      column("tag-form-content", <<"tag-form-title", "tag-form-fields", "tag-form-actions">>, "",
          ""),
      card("tag-form-card", "tag-form-content"),
      text("tags-predefined-label", PyStr("\\u9884\\u5b9a\\u4e49\\u6807\\u7b7e"), "h4"),
      text("predefined-tag-name", PyDict(path("name")), ""),
      list_component("tags-predefined-list", <<>>, [componentId |-> "predefined-tag-name",
          dataBinding |-> "/app/tags/predefined"], "horizontal", ""),
      column("tags-predefined-section", <<"tags-predefined-label", "tags-predefined-list">>, "",
          ""),
      card("tags-predefined-card", "tags-predefined-section"),
      text("tags-custom-label", PyStr("\\u81ea\\u5b9a\\u4e49\\u6807\\u7b7e"), "h4"),
      text("custom-tag-name", PyDict(path("name")), ""),
      text("custom-tag-delete-text", PyStr("\\u5220\\u9664"), ""),
      button("custom-tag-delete", "custom-tag-delete-text", "delete_tag", <<[key |-> "id",
          value |-> [path |-> "id"]]>>),
      row("custom-tag-item", <<"custom-tag-name", "custom-tag-delete">>, "center", "spaceBetween"),
      list_component("tags-custom-list", <<>>, [componentId |-> "custom-tag-item",
          dataBinding |-> "/app/tags/custom"], "vertical", ""),
      text("tags-custom-empty", PyStr("\\u6682\\u65e0\\u81ea\\u5b9a\\u4e49\\u6807\\u7b7e"), ""),
      column("tags-custom-section", <<"tags-custom-label", "tags-custom-list">>, "", ""),
      card("tags-custom-card", "tags-custom-section"),
      column("tags-page", <<"tags-header", "tag-form-card", "tags-predefined-card",
          "tags-custom-card">>, "", "")
    >>),
   page_id |-> "tags-page"]

build_ticket_detail_page(builder, ticket) ==
  LET ticket_id == ticket.id
      status == ticket.status
      allowed_transitions == STATUS_TRANSITIONS(TicketStatus(status))
      status_btn(target_status) ==
        <<text("status-btn-text-" \o target_status,
               PyStr("\\u2192 " \o STATUS_LABELS(target_status)), ""),
          button("status-btn-" \o target_status, "status-btn-text-" \o target_status,
                 "change_status",
                 <<[key |-> "id", value |-> [literalString |-> ticket_id]],
                   [key |-> "status", value |-> [literalString |-> target_status]]>>)>>
      status_btn_calls == Flatten([i \in 1..Len(allowed_transitions) |->
                                    status_btn(allowed_transitions[i])])
      status_btns == [i \in 1..Len(allowed_transitions) |->
                        "status-btn-" \o allowed_transitions[i]]
      main_cards == <<"detail-desc-card">>
                    \o (IF ticket.resolution # "" THEN <<"detail-resolution-card">> ELSE <<>>)
                    \o <<"detail-attach-card">>
  IN
  IF TicketStatusRaises(status) THEN Raise(EnumErrorMessage(status, "TicketStatus")) ELSE
  [raised |-> FALSE,
   builder |-> Add(builder, <<
      text("detail-back-text", PyStr("\\u2190 \\u8fd4\\u56de\\u5217\\u8868"), ""),
      button("detail-back-btn", "detail-back-text", "navigate", <<[key |-> "to",
          value |-> [literalString |-> "/tickets"]]>>),
      text("detail-title", PyDict(path("/app/ticket/detail/title")), "h1"),
      text("detail-edit-text", PyStr("\\u7f16\\u8f91"), ""),
      button("detail-edit-btn", "detail-edit-text", "navigate", <<[key |-> "to",
          value |-> [literalString |-> "/tickets/" \o ticket_id \o "/edit"]]>>),
      text("detail-delete-text", PyStr("\\u5220\\u9664"), ""),
      button("detail-delete-btn", "detail-delete-text", "show_delete_dialog", <<[key |-> "id",
          value |-> [literalString |-> ticket_id]]>>),
      row("detail-actions", <<"detail-edit-btn", "detail-delete-btn">>, "center", ""),
      row("detail-header", <<"detail-back-btn", "detail-title", "detail-actions">>, "center",
          "spaceBetween"),
      text("detail-desc-label", PyStr("\\u63cf\\u8ff0"), "h4"),
      text("detail-desc-content", PyDict(path("/app/ticket/detail/description")), ""),
      column("detail-desc-col", <<"detail-desc-label", "detail-desc-content">>, "", ""),
      card("detail-desc-card", "detail-desc-col"),
      text("detail-resolution-label", PyStr("\\u5904\\u7406\\u7ed3\\u679c"), "h4"),
      text("detail-resolution-content", PyDict(path("/app/ticket/detail/resolution")), ""),
      column("detail-resolution-col", <<"detail-resolution-label", "detail-resolution-content">>,
          "", ""),
      card("detail-resolution-card", "detail-resolution-col"),
      text("detail-status-label", PyStr("\\u72b6\\u6001"), "h4"),
      text("detail-status-value", PyDict(path("/app/ticket/detail/statusLabel")), "")
    >> \o status_btn_calls \o <<
      row("detail-status-btns", status_btns, "center", ""),
      column("detail-status-col", <<"detail-status-label", "detail-status-value",
          "detail-status-btns">>, "", ""),
      card("detail-status-card", "detail-status-col"),
      text("detail-priority-label", PyStr("\\u4f18\\u5148\\u7ea7"), "h4"),
      text("detail-priority-value", PyDict(path("/app/ticket/detail/priorityLabel")), ""),
      column("detail-priority-col", <<"detail-priority-label", "detail-priority-value">>, "", ""),
      card("detail-priority-card", "detail-priority-col"),
      text("detail-tags-label", PyStr("\\u6807\\u7b7e"), "h4"),
      text("detail-tag-name", PyDict(path("name")), ""),
      list_component("detail-tags-list", <<>>, [componentId |-> "detail-tag-name",
          dataBinding |-> "/app/ticket/tags"], "horizontal", ""),
      column("detail-tags-col", <<"detail-tags-label", "detail-tags-list">>, "", ""),
      card("detail-tags-card", "detail-tags-col"),
      text("detail-time-label", PyStr("\\u65f6\\u95f4\\u4fe1\\u606f"), "h4"),
      text("detail-created-label", PyStr("\\u521b\\u5efa\\u65f6\\u95f4"), ""),
      text("detail-created-value", PyDict(path("/app/ticket/detail/created_at")), ""),
      row("detail-created-row", <<"detail-created-label", "detail-created-value">>, "",
          "spaceBetween"),
      text("detail-updated-label", PyStr("\\u66f4\\u65b0\\u65f6\\u95f4"), ""),
      text("detail-updated-value", PyDict(path("/app/ticket/detail/updated_at")), ""),
      row("detail-updated-row", <<"detail-updated-label", "detail-updated-value">>, "",
          "spaceBetween"),
      column("detail-time-col", <<"detail-time-label", "detail-created-row",
          "detail-updated-row">>, "", ""),
      card("detail-time-card", "detail-time-col"),
      text("detail-attach-label", PyStr("\\u9644\\u4ef6"), "h4"),
      text("detail-attach-filename", PyDict(path("filename")), ""),
      text("detail-attach-size", PyDict(path("sizeFormatted")), ""),
      row("detail-attach-info", <<"detail-attach-filename", "detail-attach-size">>, "",
          "spaceBetween"),
      text("detail-attach-download-text", PyStr("\\u4e0b\\u8f7d"), ""),
      button("detail-attach-download", "detail-attach-download-text", "download_attachment",
          <<[key |-> "id", value |-> [path |-> "id"]]>>),
      row("detail-attach-item", <<"detail-attach-info", "detail-attach-download">>, "center",
          "spaceBetween"),
      list_component("detail-attach-list", <<>>, [componentId |-> "detail-attach-item",
          dataBinding |-> "/app/ticket/attachments"], "vertical", ""),
      text("detail-attach-empty", PyStr("\\u6682\\u65e0\\u9644\\u4ef6"), ""),
      column("detail-attach-col", <<"detail-attach-label", "detail-attach-list">>, "", ""),
      card("detail-attach-card", "detail-attach-col"),
      text("detail-history-label", PyStr("\\u53d8\\u66f4\\u5386\\u53f2"), "h4"),
      text("detail-history-type", PyDict(path("changeTypeLabel")), ""),
      text("detail-history-time", PyDict(path("created_at")), ""),
      text("detail-history-old", PyDict(path("old_value")), ""),
      text("detail-history-arrow", PyStr("\\u2192"), ""),
      text("detail-history-new", PyDict(path("new_value")), ""),
      row("detail-history-change", <<"detail-history-old", "detail-history-arrow",
          "detail-history-new">>, "center", ""),
      column("detail-history-item", <<"detail-history-type", "detail-history-time",
          "detail-history-change">>, "", ""),
      list_component("detail-history-list", <<>>, [componentId |-> "detail-history-item",
          dataBinding |-> "/app/ticket/history"], "vertical", ""),
      column("detail-history-col", <<"detail-history-label", "detail-history-list">>, "", ""),
      card("detail-history-card", "detail-history-col"),
      column("detail-main", main_cards, "", ""),
      column("detail-sidebar", <<"detail-status-card", "detail-priority-card", "detail-tags-card",
          "detail-time-card", "detail-history-card">>, "", ""),
      row("detail-body", <<"detail-main", "detail-sidebar">>, "", "start"),
      column("detail-page", <<"detail-header", "detail-body">>, "", ""),
      text("delete-modal-title", PyStr("\\u786e\\u8ba4\\u5220\\u9664"), "h3"),
      text("delete-modal-desc",
          PyStr("\\u786e\\u5b9a\\u8981\\u5220\\u9664\\u8fd9\\u4e2a\\u7968\\u636e\\u5417\\uff1f\\u6b64\\u64cd\\u4f5c\\u65e0\\u6cd5\\u64a4\\u9500\\u3002"), ""),
      text("delete-modal-cancel-text", PyStr("\\u53d6\\u6d88"), ""),
      button("delete-modal-cancel", "delete-modal-cancel-text", "dismiss_dialog", <<>>),
      text("delete-modal-confirm-text", PyStr("\\u786e\\u8ba4\\u5220\\u9664"), ""),
      button("delete-modal-confirm", "delete-modal-confirm-text", "delete_ticket", <<[key |-> "id",
          value |-> [literalString |-> ticket_id]]>>),
      row("delete-modal-actions", <<"delete-modal-cancel", "delete-modal-confirm">>, "", "end"),
      column("delete-modal-content", <<"delete-modal-title", "delete-modal-desc",
          "delete-modal-actions">>, "", "")
    >>),
   page_id |-> "detail-page"]

\* ------------------------------------------------------------------------
\* pages/tickets.py, pages/tags.py: data functions.  A function that can
\* raise returns [raised, exc] with exc = str(exception); otherwise
\* [raised |-> FALSE, messages].
\* ------------------------------------------------------------------------
\* the first element of a sequence of results that raised, if any
RECURSIVE FirstRaised(_)
FirstRaised(results) ==
  IF results = <<>> THEN Return(<<>>)
  ELSE IF Head(results).raised THEN Head(results)
  ELSE FirstRaised(Tail(results))

\* the enum lookups `STATUS_LABELS.get(TicketStatus(s), s)` and
\* `PRIORITY_LABELS.get(Priority(p), p)` of one ticket, in evaluation order
LabelLookup(ticket) ==
  IF TicketStatusRaises(ticket.status)
  THEN Raise(EnumErrorMessage(ticket.status, "TicketStatus"))
  ELSE IF PriorityRaises(ticket.priority)
  THEN Raise(EnumErrorMessage(ticket.priority, "Priority"))
  ELSE Return(<<>>)

build_tickets_data(tickets_response) ==
  LET builder == A2UIBuilder("main")
      query_data == <<value_string("search", ""),
                      value_string("status", ""),
                      value_string("priority", ""),
                      value_number("page", tickets_response.page)>>
      tickets == tickets_response.data
      ticket_map(ticket) ==
        build_value_map_from_dict(<<
          <<"id", PyStr(ticket.id)>>,
          <<"title", PyStr(ticket.title)>>,
          <<"status", PyStr(ticket.status)>>,
          <<"statusLabel", PyStr(STATUS_LABELS(TicketStatus(ticket.status)))>>,
          <<"priority", PyStr(ticket.priority)>>,
          <<"priorityLabel", PyStr(PRIORITY_LABELS(Priority(ticket.priority)))>>,
          <<"created_at", PyStr(Prefix(ticket.created_at, 10))>> >>)
      list_data == [i \in 1..Len(tickets) |->
                      value_map("ticket" \o ToString(i - 1), ticket_map(tickets[i]))]
      page == tickets_response.page
      total_pages == tickets_response.total_pages
      pagination_data ==
        <<value_number("page", page),
          value_number("totalPages", total_pages),
          value_number("prevPage", Max(1, page - 1)),
          value_number("nextPage", Min(total_pages, page + 1)),
          value_string("info", "\\u7b2c " \o ToString(page) \o " \\u9875 / \\u5171 "
                               \o ToString(total_pages) \o " \\u9875")>>
      failure == FirstRaised([i \in 1..Len(tickets) |-> LabelLookup(tickets[i])])
  IN
  IF failure.raised THEN failure
  ELSE Return(<<build_data_model_update(builder, "/app/tickets/query", query_data),
                build_data_model_update(builder, "/app/tickets/list", list_data),
                build_data_model_update(builder, "/app/tickets/pagination", pagination_data)>>)

\* f"{n / d:.1f}": one decimal, the tie rounded to even (n / d is exact
\* for the powers of two the code divides by)
FormatTenth(n, d) ==
  LET q == (n * 10) \div d
      r == (n * 10) % d
      tenths == IF 2 * r > d \/ (2 * r = d /\ q % 2 = 1) THEN q + 1 ELSE q
  IN ToString(tenths \div 10) \o "." \o ToString(tenths % 10)

SizeFormatted(size_bytes) ==
  IF size_bytes < 1024 THEN ToString(size_bytes) \o " B"
  ELSE IF size_bytes < 1024 * 1024 THEN FormatTenth(size_bytes, 1024) \o " KB"
  ELSE FormatTenth(size_bytes, 1024 * 1024) \o " MB"

ChangeTypeLabel(change_type) ==
  CASE change_type = "status" -> "\\u72b6\\u6001\\u53d8\\u66f4"
    [] change_type = "priority" -> "\\u4f18\\u5148\\u7ea7\\u53d8\\u66f4"
    [] change_type = "resolution" -> "\\u5904\\u7406\\u7ed3\\u679c"
    [] change_type = "tag_added" -> "\\u6dfb\\u52a0\\u6807\\u7b7e"
    [] change_type = "tag_removed" -> "\\u79fb\\u9664\\u6807\\u7b7e"
    [] OTHER -> change_type

\* `x or default` of an Optional[str]
OrElse(x, default) == IF x # "" THEN x ELSE default

TagEntries(tags) ==
  [i \in 1..Len(tags) |->
     value_map("tag" \o ToString(i - 1),
               build_value_map_from_dict(<< <<"id", PyStr(tags[i].id)>>,
                                            <<"name", PyStr(tags[i].name)>>,
                                            <<"color", PyStr(tags[i].color)>> >>))]

build_ticket_detail_data(ticket, attachments, history) ==
  LET builder == A2UIBuilder("main")
      detail_data ==
        build_value_map_from_dict(<<
          <<"id", PyStr(ticket.id)>>,
          <<"title", PyStr(ticket.title)>>,
          <<"description", PyStr(OrElse(ticket.description, "\\u65e0\\u63cf\\u8ff0"))>>,
          <<"status", PyStr(ticket.status)>>,
          <<"statusLabel", PyStr(STATUS_LABELS(TicketStatus(ticket.status)))>>,
          <<"priority", PyStr(ticket.priority)>>,
          <<"priorityLabel", PyStr(PRIORITY_LABELS(Priority(ticket.priority)))>>,
          <<"resolution", PyStr(OrElse(ticket.resolution, ""))>>,
          <<"created_at", PyStr(Replace(Prefix(ticket.created_at, 19), "T", " "))>>,
          <<"updated_at", PyStr(Replace(Prefix(ticket.updated_at, 19), "T", " "))>> >>)
      tags_data == TagEntries(ticket.tags)
      attach_data ==
        [i \in 1..Len(attachments) |->
           value_map("att" \o ToString(i - 1),
                     build_value_map_from_dict(<<
                       <<"id", PyStr(attachments[i].id)>>,
                       <<"filename", PyStr(attachments[i].filename)>>,
                       <<"sizeFormatted",
                         PyStr(SizeFormatted(attachments[i].size_bytes))>> >>))]
      history_data ==
        [i \in 1..Len(history) |->
           value_map("h" \o ToString(i - 1),
                     build_value_map_from_dict(<<
                       <<"changeTypeLabel", PyStr(ChangeTypeLabel(history[i].change_type))>>,
                       <<"old_value", PyStr(OrElse(history[i].old_value, "-"))>>,
                       <<"new_value", PyStr(OrElse(history[i].new_value, "-"))>>,
                       <<"created_at",
                         PyStr(Replace(Prefix(history[i].created_at, 19), "T", " "))>> >>))]
      failure == LabelLookup(ticket)
  IN
  IF failure.raised THEN failure
  ELSE Return(<<build_data_model_update(builder, "/app/ticket/detail", detail_data),
                build_data_model_update(builder, "/app/ticket/tags", tags_data),
                build_data_model_update(builder, "/app/ticket/attachments", attach_data),
                build_data_model_update(builder, "/app/ticket/history", history_data)>>)

build_ticket_create_data ==
  LET builder == A2UIBuilder("main")
      form_data == <<value_string("title", ""),
                     value_string("description", ""),
                     value_string("priority", "medium")>>
  IN Return(<<build_data_model_update(builder, "/app/form/create", form_data)>>)

build_ticket_edit_data(ticket) ==
  LET builder == A2UIBuilder("main")
      form_data == <<value_string("title", ticket.title),
                     value_string("description", OrElse(ticket.description, "")),
                     value_string("priority", ticket.priority)>>
  IN Return(<<build_data_model_update(builder, "/app/form/edit", form_data)>>)

\* [t for t in tags if keep(t)]
RECURSIVE SelectSeq2(_, _)
SelectSeq2(tags, predefined) ==
  IF tags = <<>> THEN <<>>
  ELSE (IF Head(tags).is_predefined = predefined THEN <<Head(tags)>> ELSE <<>>)
       \o SelectSeq2(Tail(tags), predefined)

build_tags_data(tags) ==
  LET builder == A2UIBuilder("main")
      form_data == <<value_string("name", ""), value_string("color", "#3B82F6")>>
      predefined == SelectSeq2(tags, TRUE)
      custom == SelectSeq2(tags, FALSE)
  IN Return(<<build_data_model_update(builder, "/app/tags/form", form_data),
              build_data_model_update(builder, "/app/tags/predefined", TagEntries(predefined)),
              build_data_model_update(builder, "/app/tags/custom", TagEntries(custom))>>)

\* ------------------------------------------------------------------------
\* api_client.py: the request each ApiClient method issues (_request sends
\* it once and raises on an error status; the reply is the backend's)
\* ------------------------------------------------------------------------
\* a dict read: d.get(key, default)
Get(d, key, default) == IF key \in DOMAIN d THEN d[key] ELSE default

list_tickets(search, status, priority, page) ==
  [api |-> "list_tickets", method |-> "GET", path |-> "/api/tickets",
   params |-> [page |-> ToString(page), per_page |-> ToString(20)]
              @@ OptProp("search", search)
              @@ OptProp("status", status)
              @@ OptProp("priority", priority)]

get_ticket(ticket_id) ==
  [api |-> "get_ticket", method |-> "GET", path |-> "/api/tickets/" \o ticket_id]

create_ticket(data) ==
  [api |-> "create_ticket", method |-> "POST", path |-> "/api/tickets", json |-> data]

update_ticket(ticket_id, data) ==
  [api |-> "update_ticket", method |-> "PUT", path |-> "/api/tickets/" \o ticket_id,
   json |-> data]

delete_ticket(ticket_id) ==
  [api |-> "delete_ticket", method |-> "DELETE", path |-> "/api/tickets/" \o ticket_id]

update_ticket_status(ticket_id, data) ==
  [api |-> "update_ticket_status", method |-> "PATCH",
   path |-> "/api/tickets/" \o ticket_id \o "/status", json |-> data]

get_ticket_history(ticket_id) ==
  [api |-> "get_ticket_history", method |-> "GET",
   path |-> "/api/tickets/" \o ticket_id \o "/history"]

get_ticket_attachments(ticket_id) ==
  [api |-> "get_ticket_attachments", method |-> "GET",
   path |-> "/api/tickets/" \o ticket_id \o "/attachments"]

list_tags ==
  [api |-> "list_tags", method |-> "GET", path |-> "/api/tags"]

create_tag(data) ==
  [api |-> "create_tag", method |-> "POST", path |-> "/api/tags", json |-> data]

delete_tag(tag_id) ==
  [api |-> "delete_tag", method |-> "DELETE", path |-> "/api/tags/" \o tag_id]

\* the methods class ApiClient defines
ApiClientMethods ==
  {"get", "post", "put", "patch", "delete", "list_tickets", "get_ticket", "create_ticket",
   "update_ticket", "delete_ticket", "update_ticket_status", "get_ticket_history",
   "get_ticket_attachments", "list_tags", "create_tag", "delete_tag"}

\* ------------------------------------------------------------------------
\* main.py: safe_int, and the urllib.parse functions stream_ui uses
\* ------------------------------------------------------------------------
Digits == <<"0", "1", "2", "3", "4", "5", "6", "7", "8", "9">>

IsDigit(c) == \E d \in 1..10 : Digits[d] = c

DigitValue(c) == (CHOOSE d \in 1..10 : Digits[d] = c) - 1

AllDigits(s) == s # "" /\ \A i \in 1..Len(s) : IsDigit(SubSeq(s, i, i))

RECURSIVE DecimalValue(_)
DecimalValue(s) ==
  IF s = "" THEN 0
  ELSE DecimalValue(SubSeq(s, 1, Len(s) - 1)) * 10 + DigitValue(SubSeq(s, Len(s), Len(s)))

\* int(s) of a str: surrounding blanks and one sign are accepted
IntOfStrRaises(s) ==
  LET u == Strip(s)
      body == IF u # "" /\ Head(u) \in {"+", "-"} THEN Tail(u) ELSE u
  IN ~AllDigits(body)

IntOfStr(s) ==
  LET u == Strip(s)
      neg == u # "" /\ Head(u) = "-"
      body == IF u # "" /\ Head(u) \in {"+", "-"} THEN Tail(u) ELSE u
  IN IF neg THEN 0 - DecimalValue(body) ELSE DecimalValue(body)

\* int(value) raises OverflowError, which safe_int does not catch
SafeIntRaises(value) == value.t = "float" /\ value.v = "inf"

\* value is a tagged Python value
safe_int(value, default) ==
  CASE value.t = "none" -> default
    [] value.t = "int" -> value.v
    [] value.t = "bool" -> (IF value.v THEN 1 ELSE 0)
    [] value.t = "str" -> (IF IntOfStrRaises(value.v) THEN default ELSE IntOfStr(value.v))
    [] OTHER -> default

\* urlparse(url) for a url without a scheme: netloc after a leading "//",
\* then the fragment after the first "#", then the query after the first "?"
urlparse(url) ==
  LET hasNetloc == StartsWith(url, "//")
      afterSlashes == Suffix(url, 2)
      delimAt(c) == Find(afterSlashes, c)
      delims == {delimAt(c) : c \in {"/", "?", "#"}} \ {0}
      netlocEnd == IF delims = {} THEN Len(afterSlashes)
                   ELSE (CHOOSE d \in delims : \A e \in delims : d <= e) - 1
      url1 == IF hasNetloc THEN Suffix(afterSlashes, netlocEnd) ELSE url
      hashAt == Find(url1, "#")
      url2 == IF hashAt = 0 THEN url1 ELSE SubSeq(url1, 1, hashAt - 1)
      queryAt == Find(url2, "?")
  IN [netloc |-> IF hasNetloc THEN SubSeq(afterSlashes, 1, netlocEnd) ELSE "",
      path |-> IF queryAt = 0 THEN url2 ELSE SubSeq(url2, 1, queryAt - 1),
      query |-> IF queryAt = 0 THEN "" ELSE Suffix(url2, queryAt),
      fragment |-> IF hashAt = 0 THEN "" ELSE Suffix(url1, hashAt)]

\* the percent escapes unquote decodes here; any other text is kept
PercentCodes == <<<<"%20", " ">>, <<"%26", "&">>, <<"%3D", "=">>, <<"%2B", "+">>,
                  <<"%23", "#">>, <<"%3F", "?">>, <<"%2F", "/">>, <<"%25", "%">>>>

RECURSIVE unquote(_)
unquote(s) ==
  IF s = "" THEN ""
  ELSE IF \E i \in 1..Len(PercentCodes) : StartsWith(s, PercentCodes[i][1])
  THEN LET i == CHOOSE k \in 1..Len(PercentCodes) : StartsWith(s, PercentCodes[k][1])
       IN PercentCodes[i][2] \o unquote(Suffix(s, 3))
  ELSE Head(s) \o unquote(Tail(s))

\* parse_qsl(qs): the (name, value) pairs with a non-blank value, in order
RECURSIVE ParseQsl(_)
ParseQsl(fields) ==
  IF fields = <<>> THEN <<>>
  ELSE LET name_value == Head(fields)
           nv == Split1(name_value, "=")
           keep == name_value # "" /\ Len(nv) = 2 /\ Len(nv[2]) > 0
       IN (IF keep THEN << <<unquote(Replace(nv[1], "+", " ")),
                             unquote(Replace(nv[2], "+", " "))>> >>
           ELSE <<>>)
          \o ParseQsl(Tail(fields))

\* parse_qs(qs): name -> list of its values, in order of appearance
parse_qs(qs) ==
  LET pairs == ParseQsl(Split(qs, "&"))
      names == {pairs[i][1] : i \in 1..Len(pairs)}
      valuesOf(n) == LET idx == {i \in 1..Len(pairs) : pairs[i][1] = n}
                         RECURSIVE take(_)
                         take(i) == IF i > Len(pairs) THEN <<>>
                                    ELSE (IF i \in idx THEN <<pairs[i][2]>> ELSE <<>>)
                                         \o take(i + 1)
                     IN take(1)
  IN [n \in names |-> valuesOf(n)]

\* ------------------------------------------------------------------------
\* main.py: generate_page_messages.  The generator is a frame g that is
\* resumed from one suspension point (an awaited backend call or a yield)
\* to the next.  A resumption returns the new frame, the message it
\* yielded (out) or the backend request it now awaits (call).
\* ------------------------------------------------------------------------
Yield(g, message, pc) ==
  [gen |-> [g EXCEPT !.pc = pc], out |-> <<message>>, call |-> <<>>]

Await(g, request) ==
  [gen |-> [g EXCEPT !.pc = "await", !.awaiting = request.api], out |-> <<>>,
   call |-> <<request>>]

Finish(g) ==
  [gen |-> [g EXCEPT !.pc = "finished"], out |-> <<>>, call |-> <<>>]

\* the number of positional parameters of the `def`, and str(TypeError) of
\* a call that passes another number of positional arguments
Parameters ==
  [build_tickets_page |-> 1,
   build_tickets_data |-> 1,
   build_ticket_detail_page |-> 2,
   build_ticket_detail_data |-> 3,
   build_ticket_create_page |-> 1,
   build_ticket_create_data |-> 0,
   build_ticket_edit_page |-> 2,
   build_ticket_edit_data |-> 1,
   build_tags_page |-> 1,
   build_tags_data |-> 1]

TypeErrorMessage(name, params, given) ==
  name \o "() takes " \o ToString(params) \o " positional argument"
       \o (IF params = 1 THEN "" ELSE "s") \o " but " \o ToString(given)
       \o (IF given = 1 THEN " was" ELSE " were") \o " given"

\* name(*args): args names the arguments of the call site, result is the
\* function applied to the arguments its parameters take
Call(name, args, result) ==
  IF Len(args) # Parameters[name]
  THEN Raise(TypeErrorMessage(name, Parameters[name], Len(args)))
  ELSE result

\* a detail view that takes a failed attachments fetch for an empty list
\* and fetches the history
ExceptFetchesOn(g, e) ==
  IF g.awaiting = "get_ticket_attachments" /\ g.pc = "await"
  THEN Await([g EXCEPT !.fetched = ("get_ticket_attachments" :> <<>>) @@ @],
             get_ticket_history(g.ticket_id))
  ELSE
    LET b0 == reset(g.builder)
        page == build_error_page(b0, e)
        b1 == build_app_layout(page.builder, page.page_id, "")
    IN Yield([g EXCEPT !.builder = b1, !.e = <<e>>], build_surface_update(b1),
             "except_surface")

\* an except block that fetches the tags once more before it gives up
ExceptRetries(g, e) ==
  IF g.awaiting = "list_tags" /\ g.pc = "await" THEN Await(g, list_tags)
  ELSE
    LET b0 == reset(g.builder)
        page == build_error_page(b0, e)
        b1 == build_app_layout(page.builder, page.page_id, "")
    IN Yield([g EXCEPT !.builder = b1, !.e = <<e>>], build_surface_update(b1),
             "except_surface")

\* an except block that shows a fixed text in place of str(e)
ExceptGeneric(g, e) ==
  LET b0 == reset(g.builder)
      page == build_error_page(b0, "Internal Server Error")
      b1 == build_app_layout(page.builder, page.page_id, "")
  IN Yield([g EXCEPT !.builder = b1, !.e = <<e>>], build_surface_update(b1), "except_surface")

\* the `except Exception as e` block up to its first yield
Except(g, e) ==
  LET b0 == reset(g.builder)
      page == build_error_page(b0, e)
      b1 == build_app_layout(page.builder, page.page_id, "")
  IN Yield([g EXCEPT !.builder = b1, !.e = <<e>>], build_surface_update(b1), "except_surface")

\* `page_id, _ = build_x_page(...)`, build_app_layout, the first yield
RenderPage(g, page, active_nav) ==
  IF page.raised THEN Except(g, page.exc)
  ELSE LET b1 == build_app_layout(page.builder, page.page_id, active_nav)
       IN Yield([g EXCEPT !.builder = b1], build_surface_update(b1), "try_surface")

\* the if/elif chain on path
Route(p) ==
  IF p = "/" \/ p = "/tickets" THEN "list"
  ELSE IF p = "/tickets/new" THEN "create"
  ELSE IF StartsWith(p, "/tickets/") /\ EndsWith(p, "/edit") THEN "edit"
  ELSE IF StartsWith(p, "/tickets/") THEN "detail"
  ELSE IF p = "/tags" THEN "tags"
  ELSE "notfound"

\* query_params.get(key) as a Python value
GetParam(query_params, key) ==
  IF key \in DOMAIN query_params THEN PyStr(query_params[key]) ELSE PyNone

\* from the call of the generator to its first suspension
GenStart(g0) ==
  LET branch == Route(g0.path)
      g == [g0 EXCEPT !.branch = branch, !.builder = A2UIBuilder("main")]
      search == Get(g.query_params, "search", "")
      status == Get(g.query_params, "status", "")
      priority == Get(g.query_params, "priority", "")
      page == safe_int(GetParam(g.query_params, "page"), 1)
      ticket_id == Split(g.path, "/")[3]
  IN CASE branch = "list" ->
            Await([g EXCEPT !.search = search, !.status = status,
                            !.priority = priority, !.page = page],
                  list_tickets(search, status, priority, page))
       [] branch = "create" -> Await(g, list_tags)
       [] branch = "edit" -> Await([g EXCEPT !.ticket_id = ticket_id], get_ticket(ticket_id))
       [] branch = "detail" -> Await([g EXCEPT !.ticket_id = ticket_id], get_ticket(ticket_id))
       [] branch = "tags" -> Await(g, list_tags)
       [] branch = "notfound" -> RenderPage(g, build_not_found_page(g.builder), "")

\* from the return of the awaited backend call to the next suspension;
\* reply is [ok |-> TRUE, data] or [ok |-> FALSE, exc]
GenReply(g0, reply) ==
  IF ~reply.ok THEN Except(g0, reply.exc)
  ELSE
    LET g == [g0 EXCEPT !.fetched = (g0.awaiting :> reply.data) @@ @] IN
    CASE g.branch = "list" ->
           RenderPage(g, Call("build_tickets_page", <<"builder">>, build_tickets_page(g.builder)),
                      "tickets")
      [] g.branch = "create" ->
           RenderPage(g, Call("build_ticket_create_page", <<"builder", "tags">>, build_ticket_create_page(g.builder)),
                      "tickets")
      [] g.branch = "edit" ->
           RenderPage(g, Call("build_ticket_edit_page", <<"builder", "ticket">>,
                              build_ticket_edit_page(g.builder, g.fetched.get_ticket)),
                      "tickets")
      [] g.branch = "detail" /\ g.awaiting = "get_ticket" ->
           Await(g, get_ticket_attachments(g.ticket_id))
      [] g.branch = "detail" /\ g.awaiting = "get_ticket_attachments" ->
           Await(g, get_ticket_history(g.ticket_id))
      [] g.branch = "detail" /\ g.awaiting = "get_ticket_history" ->
           RenderPage(g, Call("build_ticket_detail_page", <<"builder", "ticket">>,
                              build_ticket_detail_page(g.builder, g.fetched.get_ticket)),
                      "tickets")
      [] g.branch = "tags" ->
           RenderPage(g, Call("build_tags_page", <<"builder">>, build_tags_page(g.builder)),
                      "tags")

\* the call of the branch's data function in `for msg in build_x_data(...)`
DataCall(g) ==
  CASE g.branch = "list" ->
         Call("build_tickets_data", <<"tickets_data", "search", "status", "priority", "page">>,
              build_tickets_data(g.fetched.list_tickets))
    [] g.branch = "create" ->
         Call("build_ticket_create_data", <<"tags">>, build_ticket_create_data)
    [] g.branch = "edit" ->
         Call("build_ticket_edit_data", <<"ticket">>, build_ticket_edit_data(g.fetched.get_ticket))
    [] g.branch = "detail" ->
         Call("build_ticket_detail_data", <<"ticket", "attachments", "history">>,
              build_ticket_detail_data(g.fetched.get_ticket,
                                       g.fetched.get_ticket_attachments,
                                       Get(g.fetched.get_ticket_history, "data", <<>>)))
    [] g.branch = "tags" ->
         Call("build_tags_data", <<"tags">>, build_tags_data(g.fetched.list_tags))
    [] g.branch = "notfound" -> Return(<<>>)

\* the next `yield msg` of the data loop, or the beginRendering after it
NextData(g) ==
  IF g.pending = <<>>
  THEN Yield(g, build_begin_rendering(g.builder, "app-layout"), "try_begin")
  ELSE Yield([g EXCEPT !.pending = Tail(@)], Head(g.pending), "try_data")

\* from the yield the generator is suspended at to its next suspension
GenResume(g) ==
  CASE g.pc = "start" -> GenStart(g)
    [] g.pc = "try_surface" ->
         LET data == DataCall(g) IN
         IF data.raised THEN Except(g, data.exc)
         ELSE NextData([g EXCEPT !.pending = data.messages])
    [] g.pc = "try_data" -> NextData(g)
    [] g.pc = "except_surface" ->
         Yield(g, build_begin_rendering(g.builder, "app-layout"), "except_begin")
    [] g.pc \in {"try_begin", "except_begin"} -> Finish(g)

\* ------------------------------------------------------------------------
\* The backend collaborator: what each request can be answered with
\* ------------------------------------------------------------------------
MaxTickets == 1

MaxAttachments == 1

MaxHistory == 1

MaxTags == 2

MaxPage == 2

\* all sequences over S of length at most n
SeqUpTo(S, n) == UNION {[1..k -> S] : k \in 0..n}

SampleTag(i) ==
  [id |-> "t" \o ToString(i), name |-> "tag" \o ToString(i), color |-> "#10B981",
   is_predefined |-> (i % 2 = 1)]

SampleTags == {SampleTag(i) : i \in 1..MaxTags}

\* the tag lists the backend answers with
TagLists == {[k \in 1..n |-> SampleTag(k)] : n \in 0..MaxTags}

TicketOf(id, status, priority, resolution, tags) ==
  [id |-> id, title |-> "Title " \o id, description |-> "", status |-> status,
   priority |-> priority, resolution |-> resolution,
   created_at |-> "2024-01-02T03:04:05.678Z", updated_at |-> "2024-02-03T04:05:06.789Z",
   tags |-> tags]

\* well-formed tickets, and tickets whose status or priority is no enum value
SampleTickets(id) ==
  {TicketOf(id, "open", "low", "", <<>>),
   TicketOf(id, "completed", "urgent", "done", <<SampleTag(1)>>),
   TicketOf(id, "in_progress", "bogus", "", <<>>),
   TicketOf(id, "bogus", "high", "", <<>>)}

\* the tickets of a page of the list: one well-formed, one that is not
ListedTickets == {t \in SampleTickets("k1") : t.status \in {"open", "in_progress"}}

WellFormedTicket(ticket) ==
  ticket.status \in TicketStatusValues /\ ticket.priority \in PriorityValues

SampleAttachments ==
  {[id |-> "f1", filename |-> "a.txt", size_bytes |-> 512],
   [id |-> "f2", filename |-> "b.png", size_bytes |-> 1536]}

SampleHistory ==
  {[change_type |-> "status", old_value |-> "open", new_value |-> "completed",
    created_at |-> "2024-01-03T00:00:00Z"],
   [change_type |-> "custom", old_value |-> "", new_value |-> "x",
    created_at |-> "2024-01-04T00:00:00Z"]}

\* str(exception) of a failed backend call
BackendErrors == {"Client error '404 Not Found' for url", "All connection attempts failed"}

Ok(data) == [ok |-> TRUE, data |-> data]

Failed(exc) == [ok |-> FALSE, exc |-> exc]

FetchReplies(api, ticket_id) ==
  {Failed(e) : e \in BackendErrors} \cup
  CASE api = "list_tickets" ->
         {Ok([data |-> d, page |-> p, total_pages |-> tp, total |-> Len(d), per_page |-> 20]) :
            d \in SeqUpTo(ListedTickets, MaxTickets), p \in 1..MaxPage,
            tp \in 0..MaxPage}
    [] api = "get_ticket" -> {Ok(t) : t \in SampleTickets(ticket_id)}
    [] api = "get_ticket_attachments" ->
         {Ok(a) : a \in SeqUpTo(SampleAttachments, MaxAttachments)}
    [] api = "get_ticket_history" ->
         {Ok([data |-> h]) : h \in SeqUpTo(SampleHistory, MaxHistory)} \cup {Ok(<<>>)}
    [] api = "list_tags" -> {Ok(l) : l \in TagLists}
    [] OTHER -> {}

\* ------------------------------------------------------------------------
\* main.py: stream_ui and its event_generator
\* ------------------------------------------------------------------------
\* the `path` query parameter of the requests the model's clients send
StreamPaths ==
  {"/", "/tickets", "/tickets?page=2&status=open", "/tickets?status=&page=2",
   "/tickets/new", "/tickets/a",
   "/tickets/a/edit", "/tags", "/nope", "/tickets/a/b", "/tickets/", "/tickets/edit",
   "/tags/", "/ticket"}

\* the query parameters of the request besides `path`
OuterParams == {<<>>, [page |-> "3", status |-> "completed"]}

IdleAct ==
  [pc |-> "none", name |-> "", context |-> <<>>, awaiting |-> "", ticket_id |-> "",
   tag_ids |-> <<>>]

IdleGen ==
  [pc |-> "none", branch |-> "", path |-> "", query_params |-> <<>>,
   builder |-> A2UIBuilder("main"), awaiting |-> "", ticket_id |-> "",
   search |-> "", status |-> "", priority |-> "", page |-> 1,
   fetched |-> <<>>, pending |-> <<>>, e |-> <<>>]

\* the merge of the two sources of query parameters
MergeParams(request_params, path_query_params) ==
  [k \in {n \in DOMAIN path_query_params : path_query_params[n] # <<>>}
     |-> path_query_params[k][1]]
  @@ request_params

\* GET /api/a2ui/stream: query is request.query_params, `path` included.  The
\* request starts the record of a new request: what the model kept of the
\* previous one is dropped.
StreamUi(query) ==
  /\ epc \in {"idle", "done", "closed"}
  /\ apc \in {"idle", "responded"}
  /\ LET path_param == Get(query, "path", "/")
         parsed == urlparse(path_param)
         actual_path == parsed.path
         path_query_params == parse_qs(parsed.query)
         request_params == [k \in DOMAIN query \ {"path"} |-> query[k]]
         query_params == MergeParams(request_params, path_query_params)
     IN gen' = [IdleGen EXCEPT !.pc = "start", !.path = actual_path,
                               !.query_params = query_params]
  /\ epc' = "pull"
  /\ yielded' = <<>>
  /\ events' = <<>>
  /\ checks' = <<>>
  /\ calls' = <<>>
  /\ disconnected' = FALSE
  /\ apc' = "idle"
  /\ act' = IdleAct
  /\ acalls' = <<>>
  /\ warnings' = <<>>
  /\ response' = <<>>
  /\ http_request' = query
  /\ UNCHANGED sideVars

\* the effect of one resumption of the generator on the session
Resumed(r) ==
  /\ gen' = r.gen
  /\ yielded' = yielded \o r.out
  /\ calls' = calls \o [i \in 1..Len(r.call) |-> [request |-> r.call[i], outcome |-> "pending", exc |-> ""]]
  /\ epc' = IF r.out # <<>> THEN "check"
            ELSE IF r.gen.pc = "finished" THEN "done"
            ELSE "pull"

\* `async for message in generate_page_messages(...)`: the generator runs
\* to its next yield, to the backend call it awaits, or to its end
PullMessage ==
  /\ epc = "pull"
  /\ gen.pc \notin {"await", "finished", "none"}
  /\ Resumed(GenResume(gen))
  /\ UNCHANGED <<events, checks, disconnected>>
  /\ UNCHANGED <<http_request, actionVars, sideVars>>

\* a fetch that is cancelled when its client has gone
BackendReplyCancelled(reply) ==
  /\ epc = "pull"
  /\ gen.pc = "await"
  /\ IF disconnected
     THEN /\ epc' = "closed"
          /\ UNCHANGED <<gen, yielded, calls>>
     ELSE LET r == GenReply(gen, reply)
              done == [calls EXCEPT ![Len(calls)].outcome = IF reply.ok THEN "ok" ELSE "error",
                                    ![Len(calls)].exc = IF reply.ok THEN "" ELSE reply.exc]
          IN /\ gen' = r.gen
             /\ yielded' = yielded \o r.out
             /\ calls' = done \o [i \in 1..Len(r.call) |->
                                    [request |-> r.call[i], outcome |-> "pending", exc |-> ""]]
             /\ epc' = IF r.out # <<>> THEN "check" ELSE "pull"
  /\ UNCHANGED <<events, checks, disconnected>>
  /\ UNCHANGED <<http_request, actionVars, sideVars>>

\* the awaited backend call returns or raises, and the generator runs on
BackendReply(reply) ==
  /\ epc = "pull"
  /\ gen.pc = "await"
  /\ LET r == GenReply(gen, reply)
         done == [calls EXCEPT ![Len(calls)].outcome = IF reply.ok THEN "ok" ELSE "error",
                               ![Len(calls)].exc = IF reply.ok THEN "" ELSE reply.exc]
     IN /\ gen' = r.gen
        /\ yielded' = yielded \o r.out
        /\ calls' = done \o [i \in 1..Len(r.call) |->
                               [request |-> r.call[i], outcome |-> "pending", exc |-> ""]]
        /\ epc' = IF r.out # <<>> THEN "check" ELSE "pull"
  /\ UNCHANGED <<events, checks, disconnected>>
  /\ UNCHANGED <<http_request, actionVars, sideVars>>

\* an event generator that hands the newest message to the client first
CheckDisconnectNewestFirst ==
  /\ epc = "check"
  /\ checks' = Append(checks, disconnected)
  /\ IF disconnected
     THEN /\ epc' = "closed"
          /\ UNCHANGED events
     ELSE /\ epc' = "pull"
          /\ events' = <<[event |-> "message", data |-> yielded[Len(yielded)]]>> \o events
  /\ UNCHANGED <<gen, yielded, calls, disconnected>>
  /\ UNCHANGED <<http_request, actionVars, sideVars>>

\* an event generator that emits the message before it acts on the check
CheckDisconnectAfterYield ==
  /\ epc = "check"
  /\ checks' = Append(checks, disconnected)
  /\ events' = Append(events, [event |-> "message", data |-> yielded[Len(yielded)]])
  /\ epc' = IF disconnected THEN "closed" ELSE "pull"
  /\ UNCHANGED <<gen, yielded, calls, disconnected>>
  /\ UNCHANGED <<http_request, actionVars, sideVars>>

\* `if await request.is_disconnected(): break`, else the yield of the event
CheckDisconnect ==
  /\ epc = "check"
  /\ checks' = Append(checks, disconnected)
  /\ IF disconnected
     THEN /\ epc' = "closed"
          /\ UNCHANGED events
     ELSE /\ epc' = "pull"
          /\ events' = Append(events, [event |-> "message",
                                       data |-> yielded[Len(yielded)]])
  /\ UNCHANGED <<gen, yielded, calls, disconnected>>
  /\ UNCHANGED <<http_request, actionVars, sideVars>>

\* the client goes away during the session
ClientDisconnect ==
  /\ epc \in {"pull", "check"}
  /\ ~disconnected
  /\ disconnected' = TRUE
  /\ UNCHANGED <<epc, gen, yielded, events, checks, calls>>
  /\ UNCHANGED <<http_request, actionVars, sideVars>>

\* ------------------------------------------------------------------------
\* main.py: process_action.  context maps a key to a Python value; a
\* directive maps its key to a Python value.  A resumption of the
\* coroutine ends in a return, a raise, or the backend call it awaits.
\* ------------------------------------------------------------------------
CtxGet(context, key) == IF key \in DOMAIN context THEN context[key] ELSE PyNone

\* `x or ""`
OrEmpty(x) == IF Truthy(x) THEN x ELSE PyStr("")

\* `x if x is not None else ""`
NoneToEmpty(x) == IF x.t = "none" THEN PyStr("") ELSE x

\* type(x).__name__
TypeName(x) ==
  CASE x.t = "none" -> "NoneType"
    [] x.t = "str" -> "str"
    [] x.t = "bool" -> "bool"
    [] x.t = "int" -> "int"
    [] x.t = "dict" -> "dict"
    [] x.t = "list" -> "list"

\* form.get(...) of a form that is no dict raises AttributeError
FormRaises(context) == "form" \in DOMAIN context /\ context["form"].t # "dict"

\* context.get("form", {})
FormOf(context) == IF "form" \in DOMAIN context THEN context["form"].v ELSE <<>>

ActReturn(a, result) ==
  [kind |-> "return", act |-> [a EXCEPT !.pc = "returned"], result |-> result,
   call |-> <<>>, warned |-> <<>>]

\* a failure that is swallowed: the coroutine returns to the list
ActRaiseSwallowed(a, exc) ==
  [kind |-> "return", act |-> [a EXCEPT !.pc = "returned"],
   result |-> ("navigate" :> PyStr("/tickets")), call |-> <<>>, warned |-> <<>>]

ActRaise(a, exc) ==
  [kind |-> "raise", act |-> [a EXCEPT !.pc = "raised"], exc |-> exc,
   call |-> <<>>, warned |-> <<>>]

ActAwait(a, request) ==
  [kind |-> "await", act |-> [a EXCEPT !.pc = "await", !.awaiting = request.api],
   call |-> <<request>>, warned |-> <<>>]

\* a navigate directive that also claims to be handled
NavigateAndHandled(to) == ("navigate" :> PyStr(to)) @@ ("handled" :> PyBool(TRUE))

Navigate(to) == "navigate" :> PyStr(to)

\* safe_int(context.get("current_page"), 1) or safe_int(context.get("page"), 1)
\* of a list-query action raises
QueryRaises(name, context) ==
  \/ SafeIntRaises(CtxGet(context, "current_page"))
  \/ name = "paginate" /\ SafeIntRaises(CtxGet(context, "page"))

\* a filter change that leaves the page where it was
QueryStateKeepsPage(name, context) ==
  LET current_search == OrEmpty(CtxGet(context, "current_search"))
      current_status == OrEmpty(CtxGet(context, "current_status"))
      current_priority == OrEmpty(CtxGet(context, "current_priority"))
      current_page == safe_int(CtxGet(context, "current_page"), 1)
  IN [search |-> IF name = "search_tickets" THEN OrEmpty(CtxGet(context, "search"))
                 ELSE current_search,
      status |-> IF name = "filter_status" THEN NoneToEmpty(CtxGet(context, "status"))
                 ELSE current_status,
      priority |-> IF name = "filter_priority"
                   THEN NoneToEmpty(CtxGet(context, "priority"))
                   ELSE current_priority,
      page |-> IF name = "paginate" THEN safe_int(CtxGet(context, "page"), 1)
               ELSE current_page]

\* new_search, new_status, new_priority, new_page of the four list-query
\* actions
QueryState(name, context) ==
  LET current_search == OrEmpty(CtxGet(context, "current_search"))
      current_status == OrEmpty(CtxGet(context, "current_status"))
      current_priority == OrEmpty(CtxGet(context, "current_priority"))
      current_page == safe_int(CtxGet(context, "current_page"), 1)
  IN [search |-> IF name = "search_tickets" THEN OrEmpty(CtxGet(context, "search"))
                 ELSE current_search,
      status |-> IF name = "filter_status" THEN NoneToEmpty(CtxGet(context, "status"))
                 ELSE current_status,
      priority |-> IF name = "filter_priority"
                   THEN NoneToEmpty(CtxGet(context, "priority"))
                   ELSE current_priority,
      page |-> IF name \in {"search_tickets", "filter_status", "filter_priority"} THEN 1
               ELSE IF name = "paginate" THEN safe_int(CtxGet(context, "page"), 1)
               ELSE current_page]

\* the branch of the four list-query actions: the query string of the new
\* state
QueryAction(name, context) ==
  LET new == QueryState(name, context)
      query_parts ==
        (IF Truthy(new.search) THEN <<"search=" \o PyToStr(new.search)>> ELSE <<>>)
        \o (IF Truthy(new.status) THEN <<"status=" \o PyToStr(new.status)>> ELSE <<>>)
        \o (IF Truthy(new.priority) THEN <<"priority=" \o PyToStr(new.priority)>> ELSE <<>>)
        \o (IF new.page > 1 THEN <<"page=" \o ToString(new.page)>> ELSE <<>>)
      query_string == IF query_parts # <<>> THEN "?" \o Join("&", query_parts) ELSE ""
  IN Navigate("/tickets" \o query_string)

ClientSideActions ==
  {"show_create_tag_form", "hide_create_tag_form", "set_tag_color", "set_form_priority",
   "toggle_form_tag", "toggle_multi_select", "show_delete_dialog", "dismiss_dialog"}

QueryActions == {"search_tickets", "filter_status", "filter_priority", "paginate"}

MutatingActions ==
  {"create_ticket", "update_ticket", "delete_ticket", "change_status", "create_tag",
   "delete_tag"}

\* the names the if/elif chain of process_action tests for
KnownActions ==
  {"navigate", "view_ticket", "retry"} \cup QueryActions \cup MutatingActions
  \cup ClientSideActions

\* an `else` branch that raises in place of the unknown directive
UnknownActionRaises(a) == ActRaise(a, "Unknown action: " \o a.name)

\* the `else` branch: logger.warning and the unknown directive
UnknownAction(a) == ActReturn(a, "unknown" :> PyBool(TRUE))

\* from the call of process_action to its first suspension or its return
ActStart(a) ==
  LET name == a.name
      context == a.context
      form == FormOf(context)
      id == PyToStr(CtxGet(context, "id"))
  IN IF name \in {"create_ticket", "update_ticket", "create_tag"} /\ FormRaises(context)
     THEN ActRaise(a, "'" \o TypeName(context["form"]) \o "' object has no attribute 'get'")
     ELSE IF name \in QueryActions /\ QueryRaises(name, context)
     THEN ActRaise(a, "cannot convert float infinity to integer")
     ELSE
     CASE name = "navigate" ->
            ActReturn(a, "navigate" :> (IF "to" \in DOMAIN context THEN context["to"]
                                        ELSE PyStr("/tickets")))
       [] name \in QueryActions -> ActReturn(a, QueryAction(name, context))
       [] name = "view_ticket" -> ActReturn(a, Navigate("/tickets/" \o id))
       [] name = "create_ticket" ->
            ActAwait(a, create_ticket([title |-> CtxGet(form, "title"),
                                       description |-> CtxGet(form, "description"),
                                       priority |-> IF "priority" \in DOMAIN form
                                                    THEN form["priority"]
                                                    ELSE PyStr("medium")]))
       [] name = "update_ticket" ->
            ActAwait([a EXCEPT !.ticket_id = id],
                     update_ticket(id, [title |-> CtxGet(form, "title"),
                                        description |-> CtxGet(form, "description"),
                                        priority |-> CtxGet(form, "priority")]))
       [] name = "delete_ticket" -> ActAwait([a EXCEPT !.ticket_id = id], delete_ticket(id))
       [] name = "change_status" ->
            ActAwait([a EXCEPT !.ticket_id = id],
                     update_ticket_status(id, [status |-> CtxGet(context, "status"),
                                               resolution |-> CtxGet(context, "resolution")]))
       [] name = "create_tag" ->
            ActAwait(a, create_tag([name |-> CtxGet(form, "name"),
                                    color |-> IF "color" \in DOMAIN form THEN form["color"]
                                              ELSE PyStr("#3B82F6")]))
       [] name = "delete_tag" -> ActAwait(a, delete_tag(id))
       [] name \in ClientSideActions -> ActReturn(a, "handled" :> PyBool(TRUE))
       [] name = "retry" -> ActReturn(a, "refresh" :> PyBool(TRUE))
       [] OTHER -> UnknownAction(a)

\* [tid.strip() for tid in selected_tag_ids.split(",") if tid.strip()]
RECURSIVE StripNonBlank(_)
StripNonBlank(parts) ==
  IF parts = <<>> THEN <<>>
  ELSE (IF Strip(Head(parts)) # "" THEN <<Strip(Head(parts))>> ELSE <<>>)
       \o StripNonBlank(Tail(parts))

AddTagWarning(tag_id, ticket_id, e) ==
  "Failed to add tag " \o tag_id \o " to ticket " \o ticket_id \o ": " \o e

\* a tag loop without the try: the first tag that fails fails the action
TagLoopFailFast(a, warned) ==
  IF a.tag_ids = <<>>
  THEN [ActReturn(a, Navigate("/tickets/" \o a.ticket_id)) EXCEPT !.warned = warned]
  ELSE ActRaise(a, "'ApiClient' object has no attribute 'add_tag_to_ticket'")

\* `for tag_id in tag_ids`, from the tag at hand to the next suspension:
\* api_client.add_tag_to_ticket is looked up on class ApiClient at each turn
RECURSIVE TagLoop(_, _)
TagLoop(a, warned) ==
  IF a.tag_ids = <<>>
  THEN [ActReturn(a, Navigate("/tickets/" \o a.ticket_id)) EXCEPT !.warned = warned]
  ELSE IF "add_tag_to_ticket" \in ApiClientMethods
  THEN [ActAwait(a, [api |-> "add_tag_to_ticket", ticket_id |-> a.ticket_id,
                     tag_id |-> Head(a.tag_ids)])
        EXCEPT !.warned = warned]
  ELSE TagLoop([a EXCEPT !.tag_ids = Tail(@)],
               Append(warned,
                      AddTagWarning(Head(a.tag_ids), a.ticket_id,
                                    "'ApiClient' object has no attribute 'add_tag_to_ticket'")))

\* from the return of the awaited backend call to the next suspension
ActReply(a, reply) ==
  IF a.awaiting = "add_tag_to_ticket"
  THEN TagLoop([a EXCEPT !.tag_ids = Tail(@)],
               IF reply.ok THEN <<>>
               ELSE <<AddTagWarning(Head(a.tag_ids), a.ticket_id, reply.exc)>>)
  ELSE IF ~reply.ok THEN ActRaise(a, reply.exc)
  ELSE
    CASE a.name = "create_ticket" ->
           LET form == FormOf(a.context)
               ticket_id == reply.data.id
               selected_tag_ids == IF "selectedTagIds" \in DOMAIN form
                                   THEN form["selectedTagIds"] ELSE PyStr("")
               tag_ids == IF Truthy(selected_tag_ids)
                          THEN StripNonBlank(Split(selected_tag_ids.v, ","))
                          ELSE <<>>
           IN TagLoop([a EXCEPT !.ticket_id = ticket_id, !.tag_ids = tag_ids], <<>>)
      [] a.name \in {"update_ticket", "change_status"} ->
           ActReturn(a, Navigate("/tickets/" \o a.ticket_id))
      [] a.name = "delete_ticket" -> ActReturn(a, Navigate("/tickets"))
      [] a.name \in {"create_tag", "delete_tag"} -> ActReturn(a, Navigate("/tags"))

\* ------------------------------------------------------------------------
\* main.py: handle_action
\* ------------------------------------------------------------------------
\* the message of the `except Exception as e` block
ErrorMessage(error_message) ==
  IF Contains(error_message, "409") \/ Contains(error_message, "Conflict")
  THEN "\\u64cd\\u4f5c\\u5931\\u8d25\\uff1a\\u8be5\\u540d\\u79f0\\u5df2\\u5b58\\u5728"
       \o "\\uff0c\\u8bf7\\u4f7f\\u7528\\u5176\\u4ed6\\u540d\\u79f0"
  ELSE IF Contains(error_message, "400") \/ Contains(error_message, "Bad Request")
  THEN "\\u64cd\\u4f5c\\u5931\\u8d25\\uff1a\\u8bf7\\u68c0\\u67e5\\u8f93\\u5165\\u5185\\u5bb9"
  ELSE IF Contains(error_message, "404") \/ Contains(error_message, "Not Found")
  THEN "\\u64cd\\u4f5c\\u5931\\u8d25\\uff1a\\u8d44\\u6e90\\u672a\\u627e\\u5230"
  ELSE "\\u64cd\\u4f5c\\u5931\\u8d25\\uff1a" \o error_message

\* a handler without the except block: the exception leaves it and the
\* framework answers with status 500
ActResumedPropagates(r, log, warned) ==
  /\ act' = r.act
  /\ acalls' = log \o [i \in 1..Len(r.call) |-> [request |-> r.call[i], outcome |-> "pending", exc |-> ""]]
  /\ warnings' = warned \o r.warned
  /\ apc' = IF r.kind = "await" THEN "await" ELSE "responded"
  /\ response' = CASE r.kind = "return" -> <<[success |-> TRUE, result |-> r.result]>>
                   [] r.kind = "raise" -> <<[status_code |-> 500]>>
                   [] OTHER -> <<>>

\* the effect of one resumption of process_action on the action request
ActResumed(r, log, warned) ==
  /\ act' = r.act
  /\ acalls' = log \o [i \in 1..Len(r.call) |-> [request |-> r.call[i], outcome |-> "pending", exc |-> ""]]
  /\ warnings' = warned \o r.warned
  /\ apc' = IF r.kind = "await" THEN "await" ELSE "responded"
  /\ response' = CASE r.kind = "return" -> <<[success |-> TRUE, result |-> r.result]>>
                   [] r.kind = "raise" -> <<[success |-> FALSE, error |-> ErrorMessage(r.exc)]>>
                   [] OTHER -> <<>>

\* the action requests the model's clients send
CurrentStates ==
  {<<>>,
   [current_search |-> PyStr("x"), current_page |-> PyInt(3)],
   [current_search |-> PyNone, current_status |-> PyStr("open"),
    current_priority |-> PyStr("high"), current_page |-> PyStr("2")]}

SampleForms ==
  {[title |-> PyStr("T"), description |-> PyNone, priority |-> PyStr("high")],
   [title |-> PyStr("T"), selectedTagIds |-> PyStr("")],
   [title |-> PyStr("T"), selectedTagIds |-> PyStr("t1")],
   [title |-> PyStr("T"), selectedTagIds |-> PyStr("t1, t2,, ")]}

SampleContexts(name) ==
  CASE name = "navigate" -> {<<>>, [to |-> PyStr("/tags")]}
    [] name = "search_tickets" ->
         {c @@ s : c \in {<<>>, [search |-> PyStr("y")], [search |-> PyNone],
                          [search |-> PyStr("a&b")]},
                   s \in CurrentStates}
    [] name = "filter_status" ->
         {c @@ s : c \in {<<>>, [status |-> PyStr("open")], [status |-> PyStr("")]},
                   s \in CurrentStates}
    [] name = "filter_priority" ->
         {c @@ s : c \in {<<>>, [priority |-> PyStr("low")], [priority |-> PyNone]},
                   s \in CurrentStates}
    [] name = "paginate" ->
         {c @@ s : c \in {<<>>, [page |-> PyInt(2)], [page |-> PyStr("3")],
                          [page |-> PyInt(0)], [page |-> PyFloat("inf")],
                          [page |-> PyFloat("nan")]},
                   s \in CurrentStates}
    [] name = "create_ticket" ->
         {[form |-> PyDict(f)] : f \in SampleForms} \cup {<<>>, [form |-> PyNone]}
    [] name = "update_ticket" -> {[id |-> PyStr("a"), form |-> PyDict(f)] : f \in SampleForms}
    [] name = "change_status" ->
         {[id |-> PyStr("a"), status |-> PyStr("completed"), resolution |-> PyStr("ok")],
          [id |-> PyStr("a"), status |-> PyStr("open")]}
    [] name = "create_tag" ->
         {[form |-> PyDict([name |-> PyStr("n"), color |-> PyStr("#EF4444")])],
          [form |-> PyDict([name |-> PyStr("n")])]}
    [] name = "delete_tag" -> {<<>>, [id |-> PyStr("a")], [id |-> PyStr("e400")]}
    [] OTHER -> {<<>>, [id |-> PyStr("a")]}

\* names process_action does not test for
UnknownActions == {"download_attachment", "bogus", ""}

SampleActions ==
  UNION {{[name |-> n, context |-> c] : c \in SampleContexts(n)} :
           n \in KnownActions \cup UnknownActions}

\* settings.backend_url, the base_url of the ApiClient
backend_url == "http://localhost:3000"

\* str(e) of the httpx.HTTPStatusError that raise_for_status raises
HTTPStatusError(error_type, status_code, reason_phrase, url) ==
  error_type \o " '" \o ToString(status_code) \o " " \o reason_phrase \o "' for url '"
  \o url \o "'\nFor more information check: "
  \o "https://developer.mozilla.org/en-US/docs/Web/HTTP/Status/" \o ToString(status_code)

\* str(e) of the failures of a request to url
ActionErrors(url) ==
  {HTTPStatusError("Client error", 404, "Not Found", url),
   HTTPStatusError("Client error", 409, "Conflict", url),
   HTTPStatusError("Client error", 400, "Bad Request", url),
   "All connection attempts failed"}

\* the request the coroutine awaits the answer of
Awaited(log) == IF log = <<>> THEN [api |-> "", path |-> ""] ELSE log[Len(log)].request

ActionReplies(request) ==
  {Failed(e) : e \in ActionErrors(backend_url \o request.path)} \cup
  CASE request.api = "create_ticket" -> {Ok(TicketOf("n1", "open", "medium", "", <<>>))}
    [] request.api \in {"update_ticket", "update_ticket_status"} ->
         {Ok(TicketOf("a", "open", "medium", "", <<>>))}
    [] request.api = "create_tag" -> {Ok(SampleTag(1))}
    [] OTHER -> {Ok(<<>>)}

\* POST /api/a2ui/action, up to the first backend call or the response
HandleAction(action) ==
  /\ apc \in {"idle", "responded"}
  /\ epc \in {"idle", "done", "closed"}
  /\ ActResumed(ActStart([IdleAct EXCEPT !.pc = "start", !.name = action.name,
                                         !.context = action.context]),
                <<>>, <<>>)
  /\ epc' = "idle"
  /\ gen' = IdleGen
  /\ yielded' = <<>>
  /\ events' = <<>>
  /\ checks' = <<>>
  /\ calls' = <<>>
  /\ disconnected' = FALSE
  /\ http_request' = <<>>
  /\ UNCHANGED sideVars

\* the awaited backend call returns or raises, and process_action runs on
ActionBackendReply(reply) ==
  /\ apc = "await"
  /\ ActResumed(ActReply(act, reply),
                [acalls EXCEPT ![Len(acalls)].outcome = IF reply.ok THEN "ok" ELSE "error",
                               ![Len(acalls)].exc = IF reply.ok THEN "" ELSE reply.exc],
                warnings)
  /\ UNCHANGED <<sessionVars, sideVars>>

\* ------------------------------------------------------------------------
\* The server: requests are served one at a time
\* ------------------------------------------------------------------------
Init ==
  /\ epc = "idle"
  /\ gen = IdleGen
  /\ yielded = <<>>
  /\ events = <<>>
  /\ checks = <<>>
  /\ calls = <<>>
  /\ disconnected = FALSE
  /\ http_request = <<>>
  /\ apc = "idle"
  /\ act = IdleAct
  /\ acalls = <<>>
  /\ warnings = <<>>
  /\ response = <<>>
  /\ sessions = <<>>
  /\ requests = <<>>
  /\ probe = <<>>

\* the requests of the model's clients: the query parameters besides `path`
\* vary where the route reads them
StreamRequests ==
  {("path" :> p) @@ o : p \in {q \in StreamPaths : Route(urlparse(q).path) = "list"},
                        o \in OuterParams}
  \cup {("path" :> p) : p \in StreamPaths} \cup {<<>>}

Next ==
  \/ \E query \in StreamRequests : StreamUi(query)
  \/ PullMessage
  \/ \E reply \in FetchReplies(gen.awaiting, gen.ticket_id) : BackendReply(reply)
  \/ CheckDisconnect
  \/ ClientDisconnect
  \/ \E action \in SampleActions : HandleAction(action)
  \/ \E reply \in ActionReplies(Awaited(acalls)) : ActionBackendReply(reply)

Spec == Init /\ [][Next]_vars


\* ------------------------------------------------------------------------
\* The server under concurrent requests: page-view sessions and action
\* requests of several clients, each a coroutine of the one event loop,
\* interleaved at their suspension points (an awaited backend call, a
\* yield).  What a coroutine keeps between two resumptions are its locals:
\* `builder` is a local of generate_page_messages (main.py:55); the
\* module-level api_client holds base_url only and is never written.
\* ------------------------------------------------------------------------
\* no request is served by the one-at-a-time server
Quiescent ==
  /\ epc = "idle"
  /\ gen = IdleGen
  /\ yielded = <<>>
  /\ events = <<>>
  /\ checks = <<>>
  /\ calls = <<>>
  /\ disconnected = FALSE
  /\ http_request = <<>>
  /\ apc = "idle"
  /\ act = IdleAct
  /\ acalls = <<>>
  /\ warnings = <<>>
  /\ response = <<>>

SessionIds == {"s1", "s2"}

ActionIds == {"a1"}

\* the pages the interleaved clients open
InterleavedPaths == {"/tags", "/tickets/new", "/nope"}

\* the actions the interleaved clients send
InterleavedActions ==
  {[name |-> "create_tag", context |-> [form |-> PyDict([name |-> PyStr("n")])]],
   [name |-> "retry", context |-> <<>>]}

IdleSession ==
  [pc |-> "idle", path |-> "", gen |-> IdleGen, yielded |-> <<>>, replies |-> <<>>]

IdleRequest ==
  [pc |-> "idle", action |-> <<>>, act |-> IdleAct, awaited |-> <<>>, response |-> <<>>,
   replies |-> <<>>]

\* a generator frame whose builder is the one of another session
SessionFrameSharedBuilder(ss, id) ==
  LET other == CHOOSE j \in DOMAIN ss : j # id
  IN [ss[id].gen EXCEPT !.builder = ss[other].gen.builder]

\* the frame a resumption of session id runs on: the session's own locals
SessionFrame(ss, id) == ss[id].gen

\* the session after a resumption r of its generator; the client stays
\* connected, so every message yielded is emitted
SessionStep(s, r) ==
  [s EXCEPT !.gen = r.gen,
            !.yielded = @ \o r.out,
            !.pc = IF r.out # <<>> THEN "pull"
                   ELSE IF r.gen.pc = "finished" THEN "done"
                   ELSE "await"]

\* GET /api/a2ui/stream?path=... of client id
OpenSession(id, path_param) ==
  /\ sessions[id].pc = "idle"
  /\ LET parsed == urlparse(path_param)
         query_params == MergeParams(<<>>, parse_qs(parsed.query))
     IN sessions' = [sessions EXCEPT ![id] =
          [IdleSession EXCEPT !.pc = "pull", !.path = path_param,
                              !.gen = [IdleGen EXCEPT !.pc = "start",
                                                      !.path = parsed.path,
                                                      !.query_params = query_params]]]
  /\ UNCHANGED <<sessionVars, actionVars, requests, probe>>

\* the event generator of session id pulls the next message
ResumeSession(id) ==
  /\ sessions[id].pc = "pull"
  /\ sessions' = [sessions EXCEPT ![id] =
                    SessionStep(@, GenResume(SessionFrame(sessions, id)))]
  /\ UNCHANGED <<sessionVars, actionVars, requests, probe>>

\* the backend call session id awaits returns or raises
ReplySession(id, reply) ==
  /\ sessions[id].pc = "await"
  /\ sessions' = [sessions EXCEPT ![id] =
                    SessionStep([@ EXCEPT !.replies = Append(@, reply)],
                                GenReply(SessionFrame(sessions, id), reply))]
  /\ UNCHANGED <<sessionVars, actionVars, requests, probe>>

\* handle_action: what the endpoint returns for a resumption r of
\* process_action, <<>> while the coroutine awaits
Envelope(r) ==
  CASE r.kind = "return" -> <<[success |-> TRUE, result |-> r.result]>>
    [] r.kind = "raise" -> <<[success |-> FALSE, error |-> ErrorMessage(r.exc)]>>
    [] OTHER -> <<>>

RequestStep(q, r) ==
  [q EXCEPT !.act = r.act,
            !.awaited = r.call,
            !.response = Envelope(r),
            !.pc = IF r.kind = "await" THEN "await" ELSE "responded"]

\* POST /api/a2ui/action of client id
OpenRequest(id, action) ==
  /\ requests[id].pc = "idle"
  /\ requests' = [requests EXCEPT ![id] =
       RequestStep([IdleRequest EXCEPT !.action = action],
                   ActStart([IdleAct EXCEPT !.pc = "start", !.name = action.name,
                                            !.context = action.context]))]
  /\ UNCHANGED <<sessionVars, actionVars, sessions, probe>>

\* the backend call action request id awaits returns or raises
ReplyRequest(id, reply) ==
  /\ requests[id].pc = "await"
  /\ requests' = [requests EXCEPT ![id] =
       RequestStep([@ EXCEPT !.replies = Append(@, reply)], ActReply(@.act, reply))]
  /\ UNCHANGED <<sessionVars, actionVars, sessions, probe>>

\* the backend request action request q awaits the answer of
AwaitedBy(q) == IF q.awaited = <<>> THEN [api |-> "", path |-> ""] ELSE q.awaited[1]

InterleavedInit ==
  /\ Quiescent
  /\ sessions = [id \in SessionIds |-> IdleSession]
  /\ requests = [id \in ActionIds |-> IdleRequest]
  /\ probe = <<>>

InterleavedNext ==
  \/ \E id \in SessionIds, p \in InterleavedPaths : OpenSession(id, p)
  \/ \E id \in SessionIds : ResumeSession(id)
  \/ \E id \in SessionIds :
       \E reply \in FetchReplies(sessions[id].gen.awaiting, sessions[id].gen.ticket_id) :
         ReplySession(id, reply)
  \/ \E id \in ActionIds, action \in InterleavedActions : OpenRequest(id, action)
  \/ \E id \in ActionIds :
       \E reply \in ActionReplies(AwaitedBy(requests[id])) : ReplyRequest(id, reply)

Interleaved == InterleavedInit /\ [][InterleavedNext]_vars

\* ------------------------------------------------------------------------
\* a2ui_builder.py: one A2UIBuilder and the calls a caller makes on it.  A
\* method call is its effect on self and the value it returns.
\* ------------------------------------------------------------------------
MaxCalls == 4

\* the factory calls of the caller: the component each appends
ProbeComponents ==
  {text("title", PyStr("Tickets"), "h1"), button("go", "go-text", "navigate", <<>>)}

FactoryMethods == {"text", "button"}

TerminalMethods ==
  {"build_surface_update", "build_data_model_update", "build_begin_rendering",
   "build_delete_surface"}

\* the calls of the caller: method and arguments
ProbeCalls ==
  {[method |-> IF c.kind = "Text" THEN "text" ELSE "button", arg |-> c] : c \in ProbeComponents}
  \cup {[method |-> "reset", arg |-> <<>>],
        [method |-> "build_surface_update", arg |-> <<>>],
        [method |-> "build_data_model_update",
         arg |-> [path |-> "/app", contents |-> <<value_string("k", "v")>>]],
        [method |-> "build_begin_rendering", arg |-> [root |-> "title"]],
        [method |-> "build_delete_surface", arg |-> <<>>]}

\* terminal methods that clear the accumulated state as they build
InvokeClearing(builder, call) ==
  CASE call.method \in FactoryMethods ->
         [self |-> Add(builder, <<call.arg>>), returned |-> Add(builder, <<call.arg>>)]
    [] call.method = "reset" -> [self |-> reset(builder), returned |-> PyNone]
    [] call.method = "build_surface_update" ->
         [self |-> reset(builder), returned |-> build_surface_update(builder)]
    [] call.method = "build_data_model_update" ->
         [self |-> reset(builder),
          returned |-> build_data_model_update(builder, call.arg.path, call.arg.contents)]
    [] call.method = "build_begin_rendering" ->
         [self |-> reset(builder), returned |-> build_begin_rendering(builder, call.arg.root)]
    [] call.method = "build_delete_surface" ->
         [self |-> reset(builder), returned |-> build_delete_surface(builder)]

\* builder.<method>(<arg>): self after the call and the value returned.  A
\* factory appends its component and returns self; reset returns None; a
\* terminal method only reads self
Invoke(builder, call) ==
  CASE call.method \in FactoryMethods ->
         [self |-> Add(builder, <<call.arg>>), returned |-> Add(builder, <<call.arg>>)]
    [] call.method = "reset" -> [self |-> reset(builder), returned |-> PyNone]
    [] call.method = "build_surface_update" ->
         [self |-> builder, returned |-> build_surface_update(builder)]
    [] call.method = "build_data_model_update" ->
         [self |-> builder,
          returned |-> build_data_model_update(builder, call.arg.path, call.arg.contents)]
    [] call.method = "build_begin_rendering" ->
         [self |-> builder, returned |-> build_begin_rendering(builder, call.arg.root)]
    [] call.method = "build_delete_surface" ->
         [self |-> builder, returned |-> build_delete_surface(builder)]

\* the caller makes one more call on the builder
CallBuilder(call) ==
  /\ Len(probe.log) < MaxCalls
  /\ LET r == Invoke(probe.builder, call)
     IN probe' = [builder |-> r.self,
                  log |-> Append(probe.log, [call |-> call, before |-> probe.builder,
                                             after |-> r.self, returned |-> r.returned])]
  /\ UNCHANGED <<sessionVars, actionVars, sessions, requests>>

BuilderInit ==
  /\ Quiescent
  /\ sessions = <<>>
  /\ requests = <<>>
  /\ \E surface_id \in {"main", "dialog"} :
       probe = [builder |-> A2UIBuilder(surface_id), log |-> <<>>]

BuilderNext == \E call \in ProbeCalls : CallBuilder(call)

BuilderCalls == BuilderInit /\ [][BuilderNext]_vars

\* ------------------------------------------------------------------------
\* a2ui_builder.py: build_value_map_from_dict on the dicts of a caller
\* ------------------------------------------------------------------------
MaxKeys == 3

KeyNames == <<"a", "b", "c", "d", "e">>

\* values of the types the function tells apart by isinstance
ProbeValues ==
  {PyInt(1), PyInt(0), PyBool(TRUE), PyBool(FALSE), PyStr("x"), PyNone}

\* the dicts of at most MaxKeys keys, in every insertion order
ProbeDicts ==
  LET keys == {KeyNames[i] : i \in 1..Min(MaxKeys, Len(KeyNames))}
      items == SeqUpTo(keys \X ProbeValues, MaxKeys)
  IN {d \in items : \A i, j \in 1..Len(d) : i # j => d[i][1] # d[j][1]}

\* contents = build_value_map_from_dict(data)
CallBuildValueMap ==
  /\ ~probe.called
  /\ probe' = [probe EXCEPT !.called = TRUE,
                            !.contents = build_value_map_from_dict(probe.data)]
  /\ UNCHANGED <<sessionVars, actionVars, sessions, requests>>

ValueMapInit ==
  /\ Quiescent
  /\ sessions = <<>>
  /\ requests = <<>>
  /\ \E data \in ProbeDicts : probe = [data |-> data, called |-> FALSE, contents |-> <<>>]

ValueMapNext == CallBuildValueMap

ValueMaps == ValueMapInit /\ [][ValueMapNext]_vars

\* ------------------------------------------------------------------------
\* build_value_map_from_dict applied to dicts with nested values
\* ------------------------------------------------------------------------
MaxItems == 2

\* the elements of a list: a str, an int, a bool, None and a dict
ProbeItems ==
  {PyStr("x"), PyInt(2), PyBool(TRUE), PyNone, PyDict(<<<<"n", PyNone>>>>)}

\* scalars, dicts (one of them holding a list) and the lists of at most
\* MaxItems elements
ProbeNestedValues ==
  {PyStr("x"), PyInt(1), PyBool(FALSE), PyNone, PyDict(<<>>), PyDict(<<<<"k", PyInt(1)>>>>),
   PyDict(<<<<"k", PyList(<<PyNone, PyStr("")>>)>>, <<"m", PyDict(<<<<"n", PyBool(TRUE)>>>>)>>>>)}
  \cup {PyList(l) : l \in SeqUpTo(ProbeItems, MaxItems)}

\* the dicts over the keys a and b, in either insertion order
ProbeNestedDicts ==
  LET items == SeqUpTo({"a", "b"} \X ProbeNestedValues, Cardinality({"a", "b"}))
  IN {d \in items : \A i, j \in 1..Len(d) : i # j => d[i][1] # d[j][1]}

NestedValueMapInit ==
  /\ Quiescent
  /\ sessions = <<>>
  /\ requests = <<>>
  /\ \E data \in ProbeNestedDicts : probe = [data |-> data, called |-> FALSE, contents |-> <<>>]

NestedValueMaps == NestedValueMapInit /\ [][ValueMapNext]_vars

\* ------------------------------------------------------------------------
\* pages/tickets.py: build_tickets_data on the list responses of a backend
\* ------------------------------------------------------------------------
MaxTotalPages == 5

\* list responses: every page number against every number of pages, the
\* page beyond the last and an empty result (total_pages 0) included
ProbeResponses ==
  {[data |-> d, page |-> p, total_pages |-> tp, total |-> Len(d), per_page |-> 20] :
     d \in SeqUpTo(ListedTickets, 1), p \in 0..(MaxTotalPages + 1), tp \in 0..MaxTotalPages}

\* result = build_tickets_data(tickets_response)
CallBuildTicketsData ==
  /\ ~probe.called
  /\ probe' = [probe EXCEPT !.called = TRUE,
                            !.result = build_tickets_data(probe.tickets_response)]
  /\ UNCHANGED <<sessionVars, actionVars, sessions, requests>>

TicketsDataInit ==
  /\ Quiescent
  /\ sessions = <<>>
  /\ requests = <<>>
  /\ \E r \in ProbeResponses :
       probe = [tickets_response |-> r, called |-> FALSE, result |-> Return(<<>>)]

TicketsDataNext == CallBuildTicketsData

TicketsData == TicketsDataInit /\ [][TicketsDataNext]_vars

\* ------------------------------------------------------------------------
\* Properties of a page-view session
\* ------------------------------------------------------------------------
IsSurfaceUpdate(m) == "surfaceUpdate" \in DOMAIN m

IsDataModelUpdate(m) == "dataModelUpdate" \in DOMAIN m

IsBeginRendering(m) == "beginRendering" \in DOMAIN m

\* the messages the client has received, in the order of their events
Messages == [i \in 1..Len(events) |-> events[i].data]

SurfaceUpdates == {i \in 1..Len(events) : IsSurfaceUpdate(Messages[i])}

DataModelUpdates == {i \in 1..Len(events) : IsDataModelUpdate(Messages[i])}

BeginRenderings == {i \in 1..Len(events) : IsBeginRendering(Messages[i])}

Components(m) == {m.surfaceUpdate.components[i] : i \in 1..Len(m.surfaceUpdate.components)}

ComponentIds(m) == {c.id : c \in Components(m)}

Range(s) == {s[i] : i \in 1..Len(s)}

\* the generator ran to its end and the client took every message
Completed == epc = "done"

\* the session went through the except block
Excepted == gen.e # <<>>

\* the last backend fetch of the session failed
FetchFailed == calls # <<>> /\ calls[Len(calls)].outcome = "error"

\* the route the specification gives a path: an id is one non-empty segment
SpecRoute(p) ==
  LET segs == Split(p, "/") IN
  IF p \in {"/", "/tickets"} THEN "list"
  ELSE IF p = "/tickets/new" THEN "create"
  ELSE IF p = "/tags" THEN "tags"
  ELSE IF p \in {"/tickets/", "/tickets/edit"} THEN "notfound"
  ELSE IF Len(segs) = 4 /\ segs[1] = "" /\ segs[2] = "tickets" /\ segs[3] # ""
          /\ segs[4] = "edit" THEN "edit"
  ELSE IF Len(segs) = 3 /\ segs[1] = "" /\ segs[2] = "tickets" /\ segs[3] # ""
       THEN "detail"
  ELSE "notfound"

ViewRoot ==
  [list |-> "tickets-page", create |-> "create-page", edit |-> "edit-page",
   detail |-> "detail-page", tags |-> "tags-page"]

\* every fetch of the session succeeded with tickets of known status and priority
FetchesWellFormed ==
  /\ \A i \in 1..Len(calls) : calls[i].outcome = "ok"
  /\ "list_tickets" \in DOMAIN gen.fetched =>
       \A t \in Range(gen.fetched.list_tickets.data) : WellFormedTicket(t)
  /\ "get_ticket" \in DOMAIN gen.fetched => WellFormedTicket(gen.fetched.get_ticket)

\* C1: a session that runs to completion has emitted exactly one
\* beginRendering, as its last message, and the root of that message is the
\* id of a component of the last surfaceUpdate emitted before it.
C1_BeginRenderingOnceAndLast ==
  Completed =>
    /\ BeginRenderings = {Len(events)}
    /\ SurfaceUpdates # {}
    /\ LET last == CHOOSE i \in SurfaceUpdates : \A j \in SurfaceUpdates : j <= i
       IN Messages[Len(events)].beginRendering.root \in ComponentIds(Messages[last])

\* a completed session with two surfaceUpdates, so that the most recent one
\* is not the only one
C1_Witness == Completed /\ Cardinality(SurfaceUpdates) = 2

\* C2 as stated: after a failed fetch the session ends in a beginRendering
\* whose root is the root of the error page, error-page.
C2_RootIsErrorPage ==
  (Completed /\ FetchFailed) =>
    /\ BeginRenderings = {Len(events)}
    /\ Messages[Len(events)].beginRendering.root = "error-page"

\* C2 as the code has it: after a failed fetch the session emits exactly a
\* surfaceUpdate and a beginRendering; the surfaceUpdate holds the error
\* page, its error-message text is str(e) of the failed fetch, and the
\* root of the beginRendering is app-layout, the layout column that has
\* error-page as its content child.
C2_FetchFailureShowsErrorPage ==
  (Completed /\ FetchFailed) =>
    /\ Len(events) = 2
    /\ IsSurfaceUpdate(Messages[1])
    /\ IsBeginRendering(Messages[2])
    /\ Messages[2].beginRendering.root = "app-layout"
    /\ \E c \in Components(Messages[1]) :
         /\ c.id = "app-layout"
         /\ c.kind = "Column"
         /\ "error-page" \in Range(c.props.children.explicitList)
    /\ \E c \in Components(Messages[1]) : c.id = "error-page"
    /\ \E c \in Components(Messages[1]) :
         /\ c.id = "error-message"
         /\ c.props.text = [literalString |-> calls[Len(calls)].exc]

\* the attachments fetch of a detail view failed and the session completed
C2_Witness ==
  /\ Completed
  /\ FetchFailed
  /\ calls[Len(calls)].request.api = "get_ticket_attachments"

\* C3: a session that went through the except block has emitted no
\* dataModelUpdate and no surfaceUpdate but the one of the error page.
C3_ErrorNotMixedWithPage ==
  (Completed /\ Excepted) =>
    /\ DataModelUpdates = {}
    /\ \A i \in SurfaceUpdates : "error-page" \in ComponentIds(Messages[i])

\* C4: on each of the five routes, when every fetch succeeded with
\* well-formed data, the session shows the view of the route: a
\* surfaceUpdate with the root of the view, then dataModelUpdates, and no
\* error page.
C4_RouteRendersItsView ==
  (Completed /\ SpecRoute(gen.path) # "notfound" /\ FetchesWellFormed) =>
    /\ \E i \in SurfaceUpdates :
         /\ ViewRoot[SpecRoute(gen.path)] \in ComponentIds(Messages[i])
         /\ i + 1 \in DataModelUpdates
    /\ \A i \in SurfaceUpdates : "error-page" \notin ComponentIds(Messages[i])

\* C5: a path outside the five routes gets the not-found page, a
\* surfaceUpdate and a beginRendering, and no backend fetch is issued.
C5_OtherPathsNotFound ==
  (Completed /\ SpecRoute(gen.path) = "notfound") =>
    /\ calls = <<>>
    /\ Len(events) = 2
    /\ IsSurfaceUpdate(Messages[1])
    /\ "notfound-page" \in ComponentIds(Messages[1])
    /\ IsBeginRendering(Messages[2])

\* C6: a completed session has emitted exactly one surfaceUpdate.
C6_OneSurfaceUpdate == Completed => Cardinality(SurfaceUpdates) = 1

\* C7: at every point of a session the events are the messages the
\* generator yielded, in its order; a dataModelUpdate comes after a
\* surfaceUpdate, no beginRendering comes before it and no surfaceUpdate
\* after it; a completed session ends in the beginRendering.
C7_ConstructionOrder ==
  /\ Len(events) <= Len(yielded)
  /\ \A i \in 1..Len(events) : events[i] = [event |-> "message", data |-> yielded[i]]
  /\ \A i \in DataModelUpdates :
       /\ \E j \in SurfaceUpdates : j < i
       /\ \A j \in BeginRenderings : i < j
       /\ \A j \in SurfaceUpdates : j < i
  /\ Completed => Len(events) \in BeginRenderings

\* a completed session with at least two dataModelUpdates
C7_Witness == Completed /\ Cardinality(DataModelUpdates) >= 2

\* the number of checks of a sequence of checks that returned false
RECURSIVE FalseChecks(_)
FalseChecks(cs) ==
  IF cs = <<>> THEN 0
  ELSE (IF Head(cs) THEN 0 ELSE 1) + FalseChecks(Tail(cs))

\* C8: no check follows a check that returned true, the session is closed
\* from that check on, there is one event per check that returned false,
\* and a step of a session never takes an event back: the events before
\* the step are a prefix of the events after it, and a closed session
\* that stays closed emits nothing.
C8_NoEventAfterDisconnect ==
  /\ [](/\ \A i \in 1..Len(checks) : checks[i] => i = Len(checks)
        /\ (checks # <<>> /\ checks[Len(checks)]) <=> epc = "closed"
        /\ Len(events) = FalseChecks(checks))
  /\ [][/\ epc \in {"pull", "check"} =>
             /\ Len(events) <= Len(events')
             /\ SubSeq(events', 1, Len(events)) = events
        /\ (epc = "closed" /\ epc' = "closed") => events' = events]_vars

\* a session closed by a check after the client took at least one event
C8_Witness == epc = "closed" /\ Len(events) >= 1

\* ------------------------------------------------------------------------
\* Properties of an action request
\* ------------------------------------------------------------------------
Responded == apc = "responded"

\* C9: a request with an action name process_action does not test for is
\* answered at once, with success true and the directive {unknown: true},
\* and no backend call is issued for it.
C9_UnknownActionDirective ==
  (apc # "idle" /\ act.name \notin KnownActions) =>
    /\ Responded
    /\ response = <<[success |-> TRUE, result |-> ("unknown" :> PyBool(TRUE))]>>
    /\ acalls = <<>>

\* the action of the attachment download button, which the dispatcher does
\* not know, was answered
C9_Witness == Responded /\ act.name = "download_attachment"

\* C10: the directive of an answered request that did not fail has one
\* key, one of navigate, handled, refresh, unknown; retry gives
\* {refresh: true} and a client-side action {handled: true}.
C10_DirectiveHasOneKey ==
  (Responded /\ response[1].success) =>
    /\ Cardinality(DOMAIN response[1].result) = 1
    /\ DOMAIN response[1].result \subseteq {"navigate", "handled", "refresh", "unknown"}
    /\ act.name = "retry" => response[1].result = ("refresh" :> PyBool(TRUE))
    /\ act.name \in ClientSideActions => response[1].result = ("handled" :> PyBool(TRUE))

\* a ticket was created and the request answered with a directive
C10_Witness == Responded /\ act.name = "create_ticket" /\ response[1].success

\* ------------------------------------------------------------------------
\* Properties of the list-query actions
\* ------------------------------------------------------------------------
FilterActions == {"search_tickets", "filter_status", "filter_priority"}

FilterKey == [search_tickets |-> "search", filter_status |-> "status",
              filter_priority |-> "priority"]

\* the text of a context value: None and absent count as no text
TextOf(context, key) ==
  IF key \in DOMAIN context /\ context[key].t = "str" THEN context[key].v ELSE ""

\* the filter value a filter action asks for: the changed filter from its
\* own key, the other two from current_search, current_status, current_priority
FilterAsked(name, context, key) ==
  IF FilterKey[name] = key THEN TextOf(context, key)
  ELSE TextOf(context, "current_" \o key)

\* key=value of the non-empty filters, in the order search, status, priority
RECURSIVE FilterParts(_, _, _)
FilterParts(name, context, keys) ==
  IF keys = <<>> THEN <<>>
  ELSE (IF FilterAsked(name, context, Head(keys)) # ""
        THEN <<Head(keys) \o "=" \o FilterAsked(name, context, Head(keys))>>
        ELSE <<>>)
       \o FilterParts(name, context, Tail(keys))

NotFoundMessage == "\\u64cd\\u4f5c\\u5931\\u8d25\\uff1a\\u8d44\\u6e90\\u672a\\u627e\\u5230"

NameExistsMessage ==
  "\\u64cd\\u4f5c\\u5931\\u8d25\\uff1a\\u8be5\\u540d\\u79f0\\u5df2\\u5b58\\u5728"
  \o "\\uff0c\\u8bf7\\u4f7f\\u7528\\u5176\\u4ed6\\u540d\\u79f0"

CheckInputMessage ==
  "\\u64cd\\u4f5c\\u5931\\u8d25\\uff1a\\u8bf7\\u68c0\\u67e5\\u8f93\\u5165\\u5185\\u5bb9"

\* the backend call of the action request failed, with str(e) = exc
BackendFailed == acalls # <<>> /\ acalls[Len(acalls)].outcome = "error"

FailureText == acalls[Len(acalls)].exc

\* C12: an action request whose backend call failed with a message that
\* contains 404 or Not Found is answered with success false and the
\* resource-not-found message; with 409 or Conflict, the name-exists
\* message; with 400 or Bad Request, the check-your-input message.
C12_FailureMessageByStatus ==
  (Responded /\ BackendFailed) =>
    /\ (Contains(FailureText, "404") \/ Contains(FailureText, "Not Found")) =>
         response = <<[success |-> FALSE, error |-> NotFoundMessage]>>
    /\ (Contains(FailureText, "409") \/ Contains(FailureText, "Conflict")) =>
         response = <<[success |-> FALSE, error |-> NameExistsMessage]>>
    /\ (Contains(FailureText, "400") \/ Contains(FailureText, "Bad Request")) =>
         response = <<[success |-> FALSE, error |-> CheckInputMessage]>>

FailurePrefix == "\\u64cd\\u4f5c\\u5931\\u8d25\\uff1a"

\* C13: an action request is answered with {success: true, result} when
\* process_action returned and with {success: false, error}, error a
\* message that starts with the failure prefix, when it raised, whatever
\* the exception; there is no other answer, and none before the dispatch
\* is over.
C13_AlwaysAnEnvelope ==
  /\ apc \in {"idle", "await", "responded"}
  /\ ~Responded => response = <<>>
  /\ Responded =>
       /\ Len(response) = 1
       /\ act.pc \in {"returned", "raised"}
       /\ act.pc = "returned" =>
            /\ DOMAIN response[1] = {"success", "result"}
            /\ response[1].success
       /\ act.pc = "raised" =>
            /\ DOMAIN response[1] = {"success", "error"}
            /\ ~response[1].success
            /\ StartsWith(response[1].error, FailurePrefix)
            /\ Len(response[1].error) > Len(FailurePrefix)

\* a dispatch that raised something other than a backend failure was
\* answered
C13_Witness == Responded /\ act.pc = "raised" /\ acalls = <<>>

\* the ApiClient method of a mutating action
MutationOf ==
  [create_ticket |-> "create_ticket", update_ticket |-> "update_ticket",
   delete_ticket |-> "delete_ticket", change_status |-> "update_ticket_status",
   create_tag |-> "create_tag", delete_tag |-> "delete_tag"]

\* the navigation targets a mutating action may answer with
MutationTargets(name, context, request) ==
  CASE name = "create_ticket" ->
         {"/tickets/" \o r.data.id : r \in {x \in ActionReplies(request) : x.ok}}
    [] name \in {"update_ticket", "change_status"} ->
         {"/tickets/" \o PyToStr(CtxGet(context, "id"))}
    [] name = "delete_ticket" -> {"/tickets"}
    [] name \in {"create_tag", "delete_tag"} -> {"/tags"}

\* C14: a mutating action is answered with a directive only when its
\* backend mutation was issued and succeeded, and the directive is then
\* navigate to the ticket, the list or the tags; when the mutation failed
\* the answer is success false, without a directive.
C14_NavigateAfterMutation ==
  (Responded /\ act.name \in MutatingActions) =>
    /\ response[1].success =>
         /\ acalls # <<>>
         /\ acalls[1].request.api = MutationOf[act.name]
         /\ acalls[1].outcome = "ok"
         /\ \E to \in MutationTargets(act.name, act.context, acalls[1].request) :
              response[1].result = ("navigate" :> PyStr(to))
    /\ (acalls # <<>> /\ acalls[1].outcome = "error") =>
         /\ ~response[1].success
         /\ "result" \notin DOMAIN response[1]

\* a status change went through and was answered with the ticket's page
C14_Witness ==
  /\ Responded
  /\ act.name = "change_status"
  /\ response[1] = [success |-> TRUE, result |-> ("navigate" :> PyStr("/tickets/a"))]

\* no request occurs twice in a log of backend requests, and a request
\* that failed is the last one of the log
IssuedOnce(log) ==
  /\ \A i, j \in 1..Len(log) : i # j => log[i].request # log[j].request
  /\ \A i \in 1..Len(log) : log[i].outcome = "error" => i = Len(log)

\* C15: within a page-view session and within an action request every
\* backend request is issued at most once and nothing is issued after a
\* failure; the retry action issues no backend request and is answered
\* with {refresh: true}.
C15_NoAutomaticRetry ==
  /\ IssuedOnce(calls)
  /\ IssuedOnce(acalls)
  /\ (Responded /\ act.name = "retry") =>
       /\ acalls = <<>>
       /\ response = <<[success |-> TRUE, result |-> ("refresh" :> PyBool(TRUE))]>>

\* a detail view whose third fetch failed ran to completion
C15_Witness == Completed /\ Len(calls) = 3 /\ calls[3].outcome = "error"

\* ------------------------------------------------------------------------
\* Properties of the query parameters of a page-view session
\* ------------------------------------------------------------------------
\* the name=value fields of the query string embedded in the path parameter
EmbeddedFields ==
  SelectSeq(Split(urlparse(Get(http_request, "path", "/")).query, "&"),
            LAMBDA f : f # "")

FieldName(f) == unquote(Replace(Split1(f, "=")[1], "+", " "))

FieldValue(f) ==
  IF Len(Split1(f, "=")) = 2 THEN unquote(Replace(Split1(f, "=")[2], "+", " ")) ELSE ""

EmbeddedKeys == {FieldName(EmbeddedFields[i]) : i \in 1..Len(EmbeddedFields)}

\* the first value the embedded query string gives a key
EmbeddedFirst(k) ==
  LET i == CHOOSE n \in 1..Len(EmbeddedFields) :
             /\ FieldName(EmbeddedFields[n]) = k
             /\ \A m \in 1..(n - 1) : FieldName(EmbeddedFields[m]) # k
  IN FieldValue(EmbeddedFields[i])

\* the query parameters of the outer request, without `path`
OuterQuery == [k \in DOMAIN http_request \ {"path"} |-> http_request[k]]

\* C16: in the merged query parameters of a session a key of the embedded
\* query string has its first embedded value, also when the outer request
\* has the key, a key of the outer request alone has the outer value, and
\* there is no other key.
C16_EmbeddedQueryWins ==
  epc # "idle" =>
    /\ \A k \in EmbeddedKeys : Get(gen.query_params, k, "") = EmbeddedFirst(k)
    /\ \A k \in DOMAIN OuterQuery \ EmbeddedKeys :
         k \in DOMAIN gen.query_params /\ gen.query_params[k] = OuterQuery[k]
    /\ DOMAIN gen.query_params \subseteq EmbeddedKeys \cup DOMAIN OuterQuery

\* the list fetch of a page view of path `to`, a path the client was told to
\* navigate to: the parsing of the stream endpoint, then the generator up to
\* its first backend call
FetchOfPath(to) ==
  LET parsed == urlparse(to)
      query_params == MergeParams(<<>>, parse_qs(parsed.query))
  IN GenStart([IdleGen EXCEPT !.pc = "start", !.path = parsed.path,
                              !.query_params = query_params])

\* C17: the path a list-query action answers with, given to the stream
\* endpoint, resolves to the list view, and the list fetch of that view is
\* the fetch of the search, status, priority and page (a page from 1 on)
\* the action computed.
C17_FilterStateRoundTrips ==
  (Responded /\ act.name \in QueryActions /\ response[1].success
     /\ QueryState(act.name, act.context).page >= 1) =>
    LET new == QueryState(act.name, act.context)
        started == FetchOfPath(response[1].result["navigate"].v)
    IN /\ started.gen.branch = "list"
       /\ started.call = <<list_tickets(PyToStr(new.search), PyToStr(new.status),
                                        PyToStr(new.priority), new.page)>>

\* ------------------------------------------------------------------------
\* Properties of interleaved requests
\* ------------------------------------------------------------------------
IsPrefix(s, t) == Len(s) <= Len(t) /\ SubSeq(t, 1, Len(s)) = s

\* the messages of a generator that runs alone from the resumption r on,
\* its backend calls answered by replies in order, up to the call no reply
\* is left for
RECURSIVE RunAlone(_, _, _)
RunAlone(r, replies, out) ==
  LET emitted == out \o r.out IN
  IF r.out # <<>> THEN RunAlone(GenResume(r.gen), replies, emitted)
  ELSE IF r.gen.pc = "finished" \/ replies = <<>> THEN emitted
  ELSE RunAlone(GenReply(r.gen, Head(replies)), Tail(replies), emitted)

\* the messages of session s, had it run alone with the replies it got
AloneSession(s) ==
  LET parsed == urlparse(s.path)
      query_params == MergeParams(<<>>, parse_qs(parsed.query))
  IN RunAlone(GenStart([IdleGen EXCEPT !.pc = "start", !.path = parsed.path,
                                       !.query_params = query_params]),
              s.replies, <<>>)

\* the response of action request q, had it run alone with the replies it got
RECURSIVE RespondAlone(_, _)
RespondAlone(r, replies) ==
  IF r.kind # "await" \/ replies = <<>> THEN Envelope(r)
  ELSE RespondAlone(ActReply(r.act, Head(replies)), Tail(replies))

AloneRequest(q) ==
  RespondAlone(ActStart([IdleAct EXCEPT !.pc = "start", !.name = q.action.name,
                                        !.context = q.action.context]),
               q.replies)

ComponentsOf(messages) ==
  UNION {Components(messages[i]) : i \in {k \in 1..Len(messages) : IsSurfaceUpdate(messages[k])}}

\* C18: whatever the interleaving, the messages a session has emitted are
\* the first messages of the run it would make alone with the same backend
\* replies, and all of them once it awaits a reply or is done; every
\* component of its messages is a component of that run; an action request
\* is answered as it would be alone.
C18_SessionsIsolated ==
  /\ \A id \in SessionIds :
       LET s == sessions[id] IN
       s.pc # "idle" =>
         /\ IsPrefix(s.yielded, AloneSession(s))
         /\ s.pc \in {"await", "done"} => s.yielded = AloneSession(s)
         /\ ComponentsOf(s.yielded) \subseteq ComponentsOf(AloneSession(s))
  /\ \A id \in ActionIds :
       LET q == requests[id] IN
       q.pc # "idle" => q.response = AloneRequest(q)

\* three requests in flight at once: one session has emitted the components
\* of its page, another awaits the tag list, an action awaits the backend
C18_Witness ==
  /\ sessions["s1"].pc = "await"
  /\ sessions["s2"].pc = "pull"
  /\ ComponentsOf(sessions["s2"].yielded) # {}
  /\ sessions["s1"].path # sessions["s2"].path
  /\ requests["a1"].pc = "await"

\* ------------------------------------------------------------------------
\* Properties of the builder and of the value-map conversion
\* ------------------------------------------------------------------------
\* the ids of the components the factory calls before call i of the log
\* appended since the last reset, in call order
RECURSIVE AddedBefore(_, _)
AddedBefore(log, i) ==
  IF i <= 1 THEN <<>>
  ELSE LET c == log[i - 1].call IN
       IF c.method = "reset" THEN <<>>
       ELSE AddedBefore(log, i - 1)
            \o (IF c.method \in FactoryMethods THEN <<c.arg.id>> ELSE <<>>)

\* C19: a reset leaves no component and keeps the surface id; a terminal
\* method leaves the components and the surface id as they were; two
\* build_surface_update calls in a row return the same message, and a
\* build_surface_update lists the components added since the last reset in
\* the order they were added.
C19_ResetAndTerminalMethods ==
  \A i \in 1..Len(probe.log) :
    LET l == probe.log[i] IN
    /\ l.call.method = "reset" =>
         /\ l.after._components = <<>>
         /\ l.after.surface_id = l.before.surface_id
    /\ l.call.method \in TerminalMethods =>
         /\ l.after._components = l.before._components
         /\ l.after.surface_id = l.before.surface_id
    /\ l.call.method = "build_surface_update" =>
         /\ l.returned.surfaceUpdate.surfaceId = l.before.surface_id
         /\ [k \in 1..Len(l.returned.surfaceUpdate.components) |->
               l.returned.surfaceUpdate.components[k].id] = AddedBefore(probe.log, i)
         /\ (i > 1 /\ probe.log[i - 1].call.method = "build_surface_update") =>
              l.returned = probe.log[i - 1].returned

\* two components added after a reset, then build_surface_update twice
C19_Witness ==
  /\ Len(probe.log) = 4
  /\ probe.log[1].call.method = "text"
  /\ probe.log[2].call.method = "button"
  /\ probe.log[3].call.method = "build_surface_update"
  /\ probe.log[4].call.method = "build_surface_update"
  /\ Len(probe.log[4].returned.surfaceUpdate.components) = 2

\* C20: the conversion gives one entry per key, in insertion order; a
\* boolean becomes a valueBoolean and has no valueNumber, a string a
\* valueString, a number that is no boolean a valueNumber; {a: 1, b: True,
\* c: "x"} gives a valueNumber 1, a valueBoolean true and a valueString "x".
C20_ValueMapByType ==
  probe.called =>
    /\ Len(probe.contents) = Len(probe.data)
    /\ \A i \in 1..Len(probe.data) :
         LET key == probe.data[i][1]
             value == probe.data[i][2]
             entry == probe.contents[i]
         IN /\ entry.key = key
            /\ value.t = "bool" =>
                 entry = [key |-> key, valueBoolean |-> value.v]
                 /\ "valueNumber" \notin DOMAIN entry
            /\ value.t = "str" => entry = [key |-> key, valueString |-> value.v]
            /\ value.t = "int" => entry = [key |-> key, valueNumber |-> value.v]
    /\ probe.data = <<<<"a", PyInt(1)>>, <<"b", PyBool(TRUE)>>, <<"c", PyStr("x")>>>> =>
         probe.contents = <<[key |-> "a", valueNumber |-> 1],
                            [key |-> "b", valueBoolean |-> TRUE],
                            [key |-> "c", valueString |-> "x"]>>

\* the dict of the example, converted
C20_Witness ==
  /\ probe.called
  /\ probe.data = <<<<"a", PyInt(1)>>, <<"b", PyBool(TRUE)>>, <<"c", PyStr("x")>>>>

\* ------------------------------------------------------------------------
\* Properties of the data model of the ticket list
\* ------------------------------------------------------------------------
\* build_tickets_data returned its messages
Built == probe.called /\ ~probe.result.raised

\* the contents of the dataModelUpdate of path p among the messages built
ContentsAt(p) ==
  LET ms == probe.result.messages
      i == CHOOSE k \in 1..Len(ms) : ms[k].dataModelUpdate.path = p
  IN ms[i].dataModelUpdate.contents

\* the value of the entry of key k of contents
EntryOf(contents, k) ==
  LET e == contents[CHOOSE i \in 1..Len(contents) : contents[i].key = k]
  IN IF "valueNumber" \in DOMAIN e THEN e.valueNumber ELSE e.valueString

Pagination(k) == EntryOf(ContentsAt("/app/tickets/pagination"), k)

\* C21: the pagination data holds prevPage = max(1, page - 1), nextPage =
\* min(total_pages, page + 1) and the info text of page and total_pages;
\* page 3 of 5 gives 2 and 4, page 1 gives prevPage 1, the last page gives
\* nextPage total_pages.
C21_PaginationValues ==
  Built =>
    LET page == probe.tickets_response.page
        total_pages == probe.tickets_response.total_pages
    IN /\ Pagination("prevPage") = (IF page - 1 > 1 THEN page - 1 ELSE 1)
       /\ Pagination("nextPage") = (IF page + 1 < total_pages THEN page + 1 ELSE total_pages)
       /\ Pagination("info") = "\\u7b2c " \o ToString(page) \o " \\u9875 / \\u5171 "
                                 \o ToString(total_pages) \o " \\u9875"
       /\ (page = 3 /\ total_pages = 5) =>
            /\ Pagination("prevPage") = 2
            /\ Pagination("nextPage") = 4
            /\ Pagination("info") = "\\u7b2c 3 \\u9875 / \\u5171 5 \\u9875"
       /\ page = 1 => Pagination("prevPage") = 1
       /\ page = total_pages => Pagination("nextPage") = total_pages

\* the data of page 3 of 5 was built
C21_Witness ==
  /\ Built
  /\ probe.tickets_response.page = 3
  /\ probe.tickets_response.total_pages = 5

\* C29: for every list response the prevPage and nextPage of the pagination
\* data lie in 1..total_pages, and prevPage <= page <= nextPage.
C29_PaginationInRange ==
  Built =>
    LET page == probe.tickets_response.page
        total_pages == probe.tickets_response.total_pages
    IN /\ Pagination("prevPage") \in 1..total_pages
       /\ Pagination("nextPage") \in 1..total_pages
       /\ Pagination("prevPage") <= page
       /\ page <= Pagination("nextPage")

\* ------------------------------------------------------------------------
\* Properties of the bindings of a page
\* ------------------------------------------------------------------------
\* the data-model paths component c binds to: a path value of its text,
\* label or name, the dataBinding of its template, a path of its action
\* context
BoundPaths(c) ==
  LET valuePaths(key) ==
        IF key \in DOMAIN c.props /\ "path" \in DOMAIN c.props[key]
        THEN {c.props[key].path} ELSE {}
      templatePaths ==
        IF "children" \in DOMAIN c.props /\ "template" \in DOMAIN c.props.children
        THEN {c.props.children.template.dataBinding} ELSE {}
      context ==
        IF "action" \in DOMAIN c.props /\ "context" \in DOMAIN c.props.action
        THEN c.props.action.context ELSE <<>>
      contextPaths ==
        {context[i].value.path : i \in {k \in 1..Len(context) : "path" \in DOMAIN context[k].value}}
  IN IF c.kind = "Button" THEN contextPaths
     ELSE IF c.kind = "List" THEN templatePaths
     ELSE IF c.kind \in {"Text", "TextField"} THEN valuePaths("text") \cup valuePaths("label")
     ELSE {}

\* the entries of contents lead along the keys segs
RECURSIVE ResolvesIn(_, _)
ResolvesIn(contents, segs) ==
  IF segs = <<>> THEN TRUE
  ELSE \E i \in 1..Len(contents) :
         /\ contents[i].key = Head(segs)
         /\ Tail(segs) = <<>>
            \/ ("valueMap" \in DOMAIN contents[i]
                /\ ResolvesIn(contents[i].valueMap, Tail(segs)))

\* path p is the path of the dataModelUpdate m or leads into its contents
ResolvesUnder(p, m) ==
  \/ p = m.dataModelUpdate.path
  \/ /\ StartsWith(p, m.dataModelUpdate.path \o "/")
     /\ ResolvesIn(m.dataModelUpdate.contents,
                   Split(Suffix(p, Len(m.dataModelUpdate.path) + 1), "/"))

\* the absolute paths the components of the surfaceUpdates emitted bind to
AbsoluteBindings ==
  {p \in UNION {BoundPaths(c) : c \in UNION {Components(Messages[i]) : i \in SurfaceUpdates}} :
     StartsWith(p, "/")}

\* C22: in a completed session every absolute path a component of an
\* emitted surfaceUpdate binds to resolves under a dataModelUpdate the
\* session emitted before its beginRendering.
C22_BindingsResolve ==
  Completed =>
    \A p \in AbsoluteBindings :
      \E j \in DataModelUpdates :
        /\ \A b \in BeginRenderings : j < b
        /\ ResolvesUnder(p, Messages[j])

\* ------------------------------------------------------------------------
\* Properties of the fetches of a page
\* ------------------------------------------------------------------------
\* C23: when the first disconnect check of a session is made every fetch of
\* the page has been issued and has completed, and none is issued after it;
\* a session is closed by a check only; a fetch in flight while the client
\* has gone completes and the generator runs on; a disconnect that happened
\* before the first check is observed by that check, before any emission.
C23_FetchesBeforeFirstCheck ==
  /\ [](/\ checks # <<>> => \A i \in 1..Len(calls) : calls[i].outcome # "pending"
        /\ epc = "closed" => (checks # <<>> /\ checks[Len(checks)]))
  /\ [][/\ (checks # <<>> /\ checks' # <<>>) => calls' = calls
        /\ (disconnected /\ epc = "pull" /\ gen.pc = "await") =>
             /\ epc' \in {"pull", "check"}
             /\ Len(calls') >= Len(calls)
             /\ calls'[Len(calls)].outcome # "pending"
        /\ (disconnected /\ checks = <<>> /\ checks' # <<>>) =>
             /\ checks' = <<TRUE>>
             /\ events' = <<>>
             /\ epc' = "closed"]_vars

\* the client has gone while the third fetch of a detail view is in flight
C23_Witness ==
  /\ disconnected
  /\ epc = "pull"
  /\ gen.pc = "await"
  /\ Len(calls) = 3
  /\ checks = <<>>

\* C28: the fetches of a detail view are the ticket, its attachments and
\* its history in this order, one at a time; a fetch is issued only when
\* every fetch before it succeeded, and after a failed fetch the first
\* message of the session is the surfaceUpdate of the error page.
C28_DetailFetchesInOrder ==
  gen.branch = "detail" =>
    /\ IsPrefix([i \in 1..Len(calls) |-> calls[i].request.api],
                <<"get_ticket", "get_ticket_attachments", "get_ticket_history">>)
    /\ \A i \in 1..(Len(calls) - 1) : calls[i].outcome = "ok"
    /\ FetchFailed =>
         /\ Len(yielded) >= 1
         /\ IsSurfaceUpdate(yielded[1])
         /\ "error-page" \in ComponentIds(yielded[1])
         /\ "detail-page" \notin ComponentIds(yielded[1])

\* the attachments fetch of a detail view failed: two fetches, no third
C28_Witness ==
  /\ gen.branch = "detail"
  /\ Completed
  /\ Len(calls) = 2
  /\ FetchFailed

\* ------------------------------------------------------------------------
\* Properties of the creation of a ticket
\* ------------------------------------------------------------------------
\* the ticket-create call of the request at hand succeeded
TicketCreated ==
  /\ act.name = "create_ticket"
  /\ acalls # <<>>
  /\ acalls[1].request.api = "create_ticket"
  /\ acalls[1].outcome = "ok"

\* the non-blank trimmed tag ids of the form of the request at hand
SelectedTagIds ==
  LET form == FormOf(act.context)
      selected == IF "selectedTagIds" \in DOMAIN form THEN form["selectedTagIds"].v ELSE ""
  IN StripNonBlank(Split(selected, ","))

\* C24: a create_ticket request that was answered after its ticket-create
\* call succeeded has issued, after that call, one backend call per
\* non-blank trimmed tag id of selectedTagIds, in the listed order.
C24_TagsAssignedOnCreate ==
  (Responded /\ TicketCreated) =>
    /\ Len(acalls) = 1 + Len(SelectedTagIds)
    /\ \A i \in 1..Len(SelectedTagIds) :
         /\ acalls[i + 1].request.api = "add_tag_to_ticket"
         /\ acalls[i + 1].request.tag_id = SelectedTagIds[i]

\* C25: a create_ticket request whose ticket-create call succeeded is
\* answered with navigate to the new ticket whatever happens to its tags;
\* every tag id was attempted (it was added or its failure was logged, in
\* the listed order), and the ticket was created once and not deleted.
C25_TagFailureDoesNotFailCreate ==
  (Responded /\ TicketCreated) =>
    /\ response = <<[success |-> TRUE,
                     result |-> ("navigate" :> PyStr("/tickets/" \o act.ticket_id))]>>
    /\ Cardinality({i \in 1..Len(acalls) : acalls[i].request.api = "create_ticket"}) = 1
    /\ \A i \in 1..Len(acalls) : acalls[i].request.api # "delete_ticket"
    /\ Len(warnings)
         + Cardinality({i \in 1..Len(acalls) : acalls[i].request.api = "add_tag_to_ticket"
                                               /\ acalls[i].outcome = "ok"})
         = Len(SelectedTagIds)
    /\ Len(warnings) = Len(SelectedTagIds) =>
         \A i \in 1..Len(warnings) :
           StartsWith(warnings[i], "Failed to add tag " \o SelectedTagIds[i]
                                     \o " to ticket " \o act.ticket_id \o ": ")

\* a ticket created with two tag ids, both of which failed
C25_Witness ==
  /\ Responded
  /\ TicketCreated
  /\ Len(SelectedTagIds) = 2
  /\ Len(warnings) = 2

\* C26: the actions that do not mutate backend state (the four list-query
\* actions and the client-side ones) issue no backend call and never answer
\* with success false.  The first half holds; the second does not: a page
\* value that is an infinite float makes safe_int raise OverflowError, which
\* handle_action turns into a failed response.
C26_NonMutatingNeverFails ==
  (apc # "idle" /\ act.name \notin MutatingActions)
    => /\ acalls = <<>>
       /\ Responded => response[1].success

\* the action names of the buttons of the surfaceUpdates emitted
ButtonActions ==
  {c.props.action.name :
     c \in {d \in UNION {Components(Messages[i]) : i \in SurfaceUpdates} : d.kind = "Button"}}

\* C27: every action name a button of an emitted surfaceUpdate carries is a
\* name the dispatcher tests for.  The download button of the attachment
\* template of the detail page carries download_attachment, which is not.
C27_ButtonActionsKnown == Completed => ButtonActions \subseteq KnownActions

\* ------------------------------------------------------------------------
\* Properties of build_value_map_from_dict on nested values
\* ------------------------------------------------------------------------
\* the dict of the witness of C30: a list holding a dict and a number, and
\* a nested dict holding a null
NestedExample ==
  <<<<"a", PyList(<<PyDict(<<<<"n", PyNone>>>>), PyInt(2)>>)>>,
    <<"b", PyDict(<<<<"k", PyInt(1)>>>>)>>>>

\* C30: the conversion returns one entry per key of the dict, in key order
\* and under that key: a nested dict becomes a valueMap holding the
\* conversion of the dict; a list becomes a valueMap with one entry per
\* element, keyed item0, item1, ... in element order, a dict element as a
\* valueMap holding its conversion and every other element as a valueString
\* holding str(element) ("x", "2", "True", "None"); None becomes a
\* valueString "".
C30_NestedValueMap ==
  probe.called =>
    /\ Len(probe.contents) = Len(probe.data)
    /\ \A i \in 1..Len(probe.data) :
         LET key == probe.data[i][1]
             value == probe.data[i][2]
             entry == probe.contents[i]
         IN /\ entry.key = key
            /\ value.t = "none" => entry = [key |-> key, valueString |-> ""]
            /\ value.t = "dict" =>
                 /\ DOMAIN entry = {"key", "valueMap"}
                 /\ Len(entry.valueMap) = Len(value.v)
                 /\ \A j \in 1..Len(value.v) : entry.valueMap[j].key = value.v[j][1]
                 /\ entry.valueMap = build_value_map_from_dict(value.v)
            /\ value.t = "list" =>
                 /\ DOMAIN entry = {"key", "valueMap"}
                 /\ Len(entry.valueMap) = Len(value.v)
                 /\ \A j \in 1..Len(value.v) :
                      LET item == value.v[j]
                          name == "item" \o ToString(j - 1)
                          form == CASE item = PyStr("x") -> "x"
                                    [] item = PyInt(2) -> "2"
                                    [] item = PyBool(TRUE) -> "True"
                                    [] item = PyNone -> "None"
                                    [] OTHER -> ""
                      IN IF item.t = "dict"
                         THEN entry.valueMap[j] =
                                [key |-> name, valueMap |-> build_value_map_from_dict(item.v)]
                         ELSE entry.valueMap[j] = [key |-> name, valueString |-> form]
    /\ probe.data = NestedExample =>
         probe.contents =
           <<[key |-> "a",
              valueMap |-> <<[key |-> "item0",
                              valueMap |-> <<[key |-> "n", valueString |-> ""]>>],
                             [key |-> "item1", valueString |-> "2"]>>],
             [key |-> "b", valueMap |-> <<[key |-> "k", valueNumber |-> 1]>>]>>

\* the dict of the example, converted
C30_Witness == probe.called /\ probe.data = NestedExample /\ Len(probe.contents) = 2
====
